---- MODULE Spec2Model ----
(***************************************************************************)
(* Model of the kids-chatbot backend: the query classifier                 *)
(* (services/agent_service.py), the two run_agent definitions of that      *)
(* module, the session store (utils/session_manager.py) and the chat       *)
(* router (routers/chat.py).                                               *)
(*                                                                         *)
(* Text.  A Python str is modelled as a sequence of characters.  TLA+      *)
(* strings are ASCII, so a Hangul syllable (one Python character) is one   *)
(* sequence element written "k_" + its romanisation: 서울 is               *)
(* <<"k_seo", "k_ul">>.  Latin letters, digits, the space and "-" are      *)
(* themselves.  A token in angle brackets, "<...>", stands for a literal   *)
(* fragment of a fixed answer text that contains no keyword.               *)
(***************************************************************************)
EXTENDS Integers, Sequences, FiniteSets, TLC

VARIABLES
    sessions,            \* session_manager._sessions: dict, in insertion order
    location_cache,      \* session_manager._location_cache: dict
    minted,              \* number of uuid4() ids minted so far
    turn,                \* the last HTTP operation: its request and its response
    cleared,             \* history: the ids whose stored turns a DELETE removed, no
                         \* turn stored since, with the location those turns resolved
    written,             \* history: per id the messages last given to save_history
    query,               \* direct call: the user_query argument
    conversation_history,\* direct call: the conversation_history argument
    analysis,            \* direct call: what analyze_user_query returned
    result,              \* direct call: what run_agent returned
    tool_calls,          \* direct call: the tools invoked, in call order
    args,                \* service call: the arguments and what the collaborators do
    returned             \* service call: the value returned, or the exception raised

vars == <<sessions, location_cache, minted, turn, cleared, written,
          query, conversation_history, analysis, result, tool_calls, args, returned>>

\* No service call was made.
NoCall == [op |-> "<none>"]

\* Python's None, as a value comparable with texts.
None == <<"<None>">>

\* Python truthiness of an Optional[str]: None and "" are falsy.
Truthy(x) == x # None /\ x # <<>>

-----------------------------------------------------------------------------
(* str operations *)

\* `kw in text` for str operands.
Contains(kw, text) ==
    \E i \in 1..(Len(text) - Len(kw) + 1) : \A k \in 1..Len(kw) : text[i + k - 1] = kw[k]

UpperLatin == {"A","B","C","D","E","F","G","H","I","J","K","L","M",
               "N","O","P","Q","R","S","T","U","V","W","X","Y","Z"}

LowerOf == [c \in UpperLatin |->
    CASE c = "A" -> "a" [] c = "B" -> "b" [] c = "C" -> "c" [] c = "D" -> "d"
      [] c = "E" -> "e" [] c = "F" -> "f" [] c = "G" -> "g" [] c = "H" -> "h"
      [] c = "I" -> "i" [] c = "J" -> "j" [] c = "K" -> "k" [] c = "L" -> "l"
      [] c = "M" -> "m" [] c = "N" -> "n" [] c = "O" -> "o" [] c = "P" -> "p"
      [] c = "Q" -> "q" [] c = "R" -> "r" [] c = "S" -> "s" [] c = "T" -> "t"
      [] c = "U" -> "u" [] c = "V" -> "v" [] c = "W" -> "w" [] c = "X" -> "x"
      [] c = "Y" -> "y" [] OTHER -> "z"]

\* str.lower(): Latin capitals are lowered, every other character is kept.
lower(text) ==
    [i \in 1..Len(text) |-> IF text[i] \in UpperLatin THEN LowerOf[text[i]] ELSE text[i]]

\* The index of the first element of `keywords`, from index j on, that occurs in
\* text; 0 if none does.
RECURSIVE FirstFrom(_, _, _)
FirstFrom(keywords, text, j) ==
    IF j > Len(keywords) THEN 0
    ELSE IF Contains(keywords[j], text) THEN j
    ELSE FirstFrom(keywords, text, j + 1)

\* for k in keywords: if k in text: ... (the first hit in list order; 0 if none)
FirstIn(keywords, text) == FirstFrom(keywords, text, 1)

\* any(k in text for k in keywords)
AnyIn(keywords, text) == FirstIn(keywords, text) # 0

-----------------------------------------------------------------------------
(* agent_service.py: extract_location, extract_date *)

\* 서울 부산 대구 인천 광주 대전 울산 세종 경기 강원 충북 충남 전북 전남 경북 경남 제주
cities == <<
    <<"k_seo","k_ul">>, <<"k_bu","k_san">>, <<"k_dae","k_gu">>, <<"k_in","k_cheon">>,
    <<"k_gwang","k_ju">>, <<"k_dae","k_jeon">>, <<"k_ul","k_san">>, <<"k_se","k_jong">>,
    <<"k_gyeong","k_gi">>, <<"k_gang","k_won">>, <<"k_chung","k_buk">>, <<"k_chung","k_nam">>,
    <<"k_jeon","k_buk">>, <<"k_jeon","k_nam">>, <<"k_gyeong","k_buk">>, <<"k_gyeong","k_nam">>,
    <<"k_je","k_ju">> >>

\* 강남 서초 송파 강동 마포 용산 성동 광진 중구 종로 은평 서대문 동대문 성북 강북 도봉
\* 노원 동작 관악 금천 구로 영등포 양천 강서
districts == <<
    <<"k_gang","k_nam">>, <<"k_seo","k_cho">>, <<"k_song","k_pa">>, <<"k_gang","k_dong">>,
    <<"k_ma","k_po">>, <<"k_yong","k_san">>, <<"k_seong","k_dong">>, <<"k_gwang","k_jin">>,
    <<"k_jung","k_gu">>, <<"k_jong","k_ro">>, <<"k_eun","k_pyeong">>,
    <<"k_seo","k_dae","k_mun">>, <<"k_dong","k_dae","k_mun">>, <<"k_seong","k_buk">>,
    <<"k_gang","k_buk">>, <<"k_do","k_bong">>, <<"k_no","k_won">>, <<"k_dong","k_jak">>,
    <<"k_gwan","k_ak">>, <<"k_geum","k_cheon">>, <<"k_gu","k_ro">>,
    <<"k_yeong","k_deung","k_po">>, <<"k_yang","k_cheon">>, <<"k_gang","k_seo">> >>

Seoul == <<"k_seo","k_ul">>

\* Faulty variant: of the cities in the text the last one of the list is taken.
extract_location_last_city(text) ==
    LET found == {i \in 1..Len(cities) : Contains(cities[i], text)}
        c == IF found = {} THEN 0 ELSE CHOOSE i \in found : \A k \in found : k <= i
        d == FirstIn(districts, text)
    IN  IF c # 0
        THEN IF d # 0 THEN cities[c] \o <<" ">> \o districts[d] ELSE cities[c]
        ELSE IF d # 0 THEN Seoul \o <<" ">> \o districts[d]
        ELSE None

\* Lines 105-117: the first city of the list that occurs in the text, with the
\* first district of the list that occurs in it; a district alone after 서울.
extract_location(text) ==
    LET c == FirstIn(cities, text)
        d == FirstIn(districts, text)
    IN  IF c # 0
        THEN IF d # 0 THEN cities[c] \o <<" ">> \o districts[d] ELSE cities[c]
        ELSE IF d # 0 THEN Seoul \o <<" ">> \o districts[d]
        ELSE None

\* 오늘 내일 모레 이번주 다음주 주말, in dict order, with the values they map to.
date_keywords == <<
    <<"k_o","k_neul">>, <<"k_nae","k_il">>, <<"k_mo","k_re">>,
    <<"k_i","k_beon","k_ju">>, <<"k_da","k_eum","k_ju">>, <<"k_ju","k_mal">> >>

date_values == <<
    <<"t","o","d","a","y">>, <<"t","o","m","o","r","r","o","w">>,
    <<"d","a","y","_","a","f","t","e","r","_","t","o","m","o","r","r","o","w">>,
    <<"t","h","i","s","_","w","e","e","k">>, <<"n","e","x","t","_","w","e","e","k">>,
    <<"w","e","e","k","e","n","d">> >>

Digits == {"0","1","2","3","4","5","6","7","8","9"}

\* re.match of \d{4}-\d{2}-\d{2} at position i of text.
DateAt(text, i) ==
    /\ i + 9 <= Len(text)
    /\ \A k \in {0, 1, 2, 3, 5, 6, 8, 9} : text[i + k] \in Digits
    /\ text[i + 4] = "-"
    /\ text[i + 7] = "-"

extract_date(text) ==
    IF AnyIn(date_keywords, text) THEN date_values[FirstIn(date_keywords, text)]
    ELSE IF \E i \in 1..Len(text) : DateAt(text, i)
         THEN LET i == CHOOSE i \in 1..Len(text) :
                          DateAt(text, i) /\ \A k \in 1..(i - 1) : ~DateAt(text, k)
              IN SubSeq(text, i, i + 9)
         ELSE None

-----------------------------------------------------------------------------
(* agent_service.py: extract_location_from_history, analyze_user_query *)

\* history[-10:] looks at the last HistoryWindow entries.
HistoryWindow == 10

Max(a, b) == IF a >= b THEN a ELSE b

\* The indices of history[-n:].
LastIndices(history, n) == Max(1, Len(history) - n + 1)..Len(history)

\* Faulty variant: entries of every role are searched.
extract_location_from_history_any_role(history) ==
    LET first == Max(1, Len(history) - HistoryWindow + 1)
        RECURSIVE Scan(_)
        Scan(i) ==
            IF i < first THEN None
            ELSE LET location == extract_location(history[i].content) IN
                 IF Truthy(location) THEN location ELSE Scan(i - 1)
    IN  Scan(Len(history))

\* Faulty variant: only the last entry of the history is searched.
extract_location_from_history_last_only(history) ==
    IF history # <<>> /\ history[Len(history)].role = "user"
    THEN extract_location(history[Len(history)].content)
    ELSE None

\* for msg in reversed(history[-10:]): the first user-role message, most recent
\* first, whose content holds a location.
extract_location_from_history(history) ==
    LET first == Max(1, Len(history) - HistoryWindow + 1)
        RECURSIVE Scan(_)
        Scan(i) ==
            IF i < first THEN None
            ELSE IF history[i].role = "user"
            THEN LET location == extract_location(history[i].content) IN
                 IF Truthy(location) THEN location ELSE Scan(i - 1)
            ELSE Scan(i - 1)
    IN  Scan(Len(history))

\* 고마워 감사 좋아 최고 완벽 훌륭 thank thanks great awesome perfect
emotion_keywords == <<
    <<"k_go","k_ma","k_wo">>, <<"k_gam","k_sa">>, <<"k_joh","k_a">>, <<"k_choe","k_go">>,
    <<"k_wan","k_byeok">>, <<"k_hul","k_lyung">>,
    <<"t","h","a","n","k">>, <<"t","h","a","n","k","s">>, <<"g","r","e","a","t">>,
    <<"a","w","e","s","o","m","e">>, <<"p","e","r","f","e","c","t">> >>

\* 추천 찾아 어디 뭐해 갈만한
action_keywords == <<
    <<"k_chu","k_cheon">>, <<"k_chaj","k_a">>, <<"k_eo","k_di">>, <<"k_mwo","k_hae">>,
    <<"k_gal","k_man","k_han">> >>

\* No analysis was made.
NotAnalyzed ==
    [type |-> "<pending>", location |-> None, date |-> None, has_emotion |-> FALSE]

\* Faulty variant: the location test is made before the emotion test.
analyze_user_query_location_first(q, history) ==
    LET query_lower == lower(q)
        has_emotion == AnyIn(emotion_keywords, query_lower)
        here        == extract_location(q)
        location    == IF ~Truthy(here) THEN extract_location_from_history(history) ELSE here
        date_info   == extract_date(q)
    IN  IF Truthy(location)
        THEN [type |-> "ready", location |-> location, date |-> date_info,
              has_emotion |-> FALSE]
        ELSE IF has_emotion /\ ~AnyIn(action_keywords, query_lower)
        THEN [type |-> "emotion", location |-> None, date |-> None, has_emotion |-> TRUE]
        ELSE [type |-> "need_location", location |-> None, date |-> date_info,
              has_emotion |-> FALSE]

analyze_user_query(q, history) ==
    LET query_lower == lower(q)
        has_emotion == AnyIn(emotion_keywords, query_lower)
        here        == extract_location(q)
        location    == IF ~Truthy(here) THEN extract_location_from_history(history) ELSE here
        date_info   == extract_date(q)
    IN  IF has_emotion /\ ~AnyIn(action_keywords, query_lower)
        THEN [type |-> "emotion", location |-> None, date |-> None, has_emotion |-> TRUE]
        ELSE IF ~Truthy(location)
        THEN [type |-> "need_location", location |-> None, date |-> date_info,
              has_emotion |-> FALSE]
        ELSE [type |-> "ready", location |-> location, date |-> date_info,
              has_emotion |-> FALSE]

-----------------------------------------------------------------------------
(* agent_service.py: the helpers of the three-step run_agent *)

UserMessage(text) == [role |-> "user", content |-> text]
AiMessage(text)   == [role |-> "ai", content |-> text]

\* 고마 감사 좋아 최고 완벽: the keys of `responses`, in dict order.
response_keys == <<
    <<"k_go","k_ma">>, <<"k_gam","k_sa">>, <<"k_joh","k_a">>, <<"k_choe","k_go">>,
    <<"k_wan","k_byeok">> >>

\* The reply texts of generate_emotion_response, one token each (none of them
\* holds a place name), followed by the default reply.
response_texts == <<
    <<"<reply:cheonmaneyo>">>, <<"<reply:gippeumnida>">>, <<"<reply:maeume>">>,
    <<"<reply:gamsahamnida>">>, <<"<reply:wanbyeok>">> >>

DefaultEmotionReply == <<"<reply:malsseum>">>

generate_emotion_response(q) ==
    IF AnyIn(response_keys, q) THEN response_texts[FirstIn(response_keys, q)]
    ELSE DefaultEmotionReply

\* "어느 지역을 생각하고 계신가요? 🗺️\n(예: 서울 강남, 부산 해운대)"
AskLocationText ==
    <<"<eoneu jiyeogeul saenggakago gyesingayo?>", "\n", "(", "<ye>", ":", " ",
      "k_seo", "k_ul", " ", "k_gang", "k_nam", ",", " ",
      "k_bu", "k_san", " ", "k_hae", "k_un", "k_dae", ")">>

\* call_weather_tool: get_weather's reading, or the sunny default when it raises.
call_weather_tool(location, weather) ==
    IF weather = "<raise>"
    THEN [location |-> location, status |-> "sunny", error |-> TRUE]
    ELSE [location |-> location, status |-> weather, error |-> FALSE]

\* location.split(): the maximal runs of non-space characters.
RECURSIVE split(_)
split(text) ==
    IF text = <<>> THEN <<>>
    ELSE IF Head(text) = " " THEN split(Tail(text))
    ELSE LET stop == IF \E i \in 1..Len(text) : text[i] = " "
                     THEN (CHOOSE i \in 1..Len(text) :
                              text[i] = " " /\ \A k \in 1..(i - 1) : text[k] # " ")
                     ELSE Len(text) + 1
         IN  <<SubSeq(text, 1, stop - 1)>> \o split(SubSeq(text, stop, Len(text)))

\* Faulty variant: the district is left out of the filter.
rag_filters_city_only(location) ==
    LET parts == split(location) IN
    IF Len(parts) >= 1 THEN [region_city |-> parts[1], region_gu |-> None]
    ELSE [region_city |-> None, region_gu |-> None]

\* The filter dict call_rag_tool builds from the location.
rag_filters(location) ==
    LET parts == split(location) IN
    IF Len(parts) >= 2 THEN [region_city |-> parts[1], region_gu |-> parts[2]]
    ELSE IF Len(parts) = 1 THEN [region_city |-> parts[1], region_gu |-> None]
    ELSE [region_city |-> None, region_gu |-> None]

\* call_rag_tool: the documents search_and_rerank returned, or [] when the
\* service raises.
call_rag_tool(q, location, found) ==
    IF found.raises THEN <<>> ELSE found.docs

\* One entry of the template answer: "{i}. 📍 **{name}** ({gu})\n   분류: ... | 가격: ...".
FacilityEntry(i, doc) ==
    <<ToString(i), ".", " ", "<pin>">> \o doc.facility_name \o <<" ", "(">> \o doc.region_gu
        \o <<")", "\n", "<bunryu>", doc.category1, "<gagyeok>", doc.price, "\n", "\n">>

RECURSIVE FacilityEntries(_, _)
FacilityEntries(docs, i) ==
    IF i > Len(docs) \/ i > 3 THEN <<>>
    ELSE FacilityEntry(i, docs[i]) \o FacilityEntries(docs, i + 1)

WeatherEmoji(status) ==
    CASE status = "sunny" -> "<emoji:sun>"
      [] status = "rainy" -> "<emoji:rain>"
      [] status = "cloudy" -> "<emoji:cloud>"
      [] OTHER -> "<emoji:partly>"

\* The template ("Mock 모드") answer of generate_final_answer.
TemplateAnswer(location, weather, facilities) ==
    <<WeatherEmoji(weather.status), " ">> \o location
        \o <<" ", "<nalssineun>", " ", weather.status, "<ieyo!>", "\n", "\n",
             "k_chu", "k_cheon", " ", "<jangsoreul chajasseoyo!>", "\n", "\n">>
        \o FacilityEntries(facilities, 1)
        \o <<"<jeulgeoun sigan bonaeseyo!>">>

\* The text a loaded language model generates is not determined by the program.
GeneratedText == <<"<generated>">>

\* generate_final_answer: llm is "mock" (no GPU model), "gpu_ok" (the model
\* generates), "gpu_fail" (generation raises and the template answer is used)
\* or "service_raise" (get_llm_service raises).
generate_final_answer(q, location, weather, facilities, llm) ==
    IF llm = "gpu_ok" THEN GeneratedText
    ELSE TemplateAnswer(location, weather, facilities)

-----------------------------------------------------------------------------
(* agent_service.py: run_agent, first definition (lines 254-318) *)

\* No call was made.
NoResult ==
    [status |-> "<pending>", answer |-> <<>>, conversation_history |-> <<>>,
     tools_used |-> <<>>]

\* The call raised.
Raised ==
    [status |-> "raised", answer |-> <<>>, conversation_history |-> <<>>,
     tools_used |-> <<>>]

\* "추천 장소를 찾았어요!": the text announces that places were found.
AnnouncesFound(text) ==
    Contains(<<"k_chu", "k_cheon", " ", "<jangsoreul chajasseoyo!>">>, text)

\* Faulty variant: the tools are skipped on an emotion turn only.
tool_helpers_called_unless_emotion(a) ==
    IF a.type = "emotion" THEN <<>> ELSE <<"call_weather_tool", "call_rag_tool">>

\* The tool helpers run_agent calls, in call order: none in the emotion and the
\* need_location branch, call_weather_tool then call_rag_tool in the else branch.
tool_helpers_called(a) ==
    IF a.type \in {"emotion", "need_location"} THEN <<>>
    ELSE <<"call_weather_tool", "call_rag_tool">>

\* Lines 276-318 of the three-step run_agent, given the analysis a of line 273.
run_agent_3step_branches(a, user_query, history, env) ==
    LET rag_result ==
            IF a.type \in {"emotion", "need_location"} THEN <<>>
            ELSE call_rag_tool(user_query, a.location, env.found)
        answer ==
            IF a.type = "emotion" THEN generate_emotion_response(user_query)
            ELSE IF a.type = "need_location" THEN AskLocationText
            ELSE generate_final_answer(user_query, a.location,
                                       call_weather_tool(a.location, env.weather),
                                       rag_result, env.llm)
        tools_used ==
            IF a.type \in {"emotion", "need_location"} THEN <<>>
            ELSE <<"weather_tool", "rag_search_tool">>
    IN  IF a.type = "ready" /\ env.llm = "service_raise"
        THEN [out |-> Raised, calls |-> tool_helpers_called(a), analysis |-> a,
              rag_result |-> rag_result]
        ELSE [out |-> [status |-> "returned", answer |-> answer,
                       conversation_history |->
                           history \o <<UserMessage(user_query), AiMessage(answer)>>,
                       tools_used |-> tools_used],
              calls |-> tool_helpers_called(a), analysis |-> a, rag_result |-> rag_result]

\* The three-step run_agent.  env holds what the collaborators do in this call:
\* env.weather, env.found, env.llm.  The field `calls` of the value lists the
\* tool helpers in the order the function calls them, `analysis` is the
\* query_analysis entry of the returned dict.
run_agent_3step(user_query, history, env) ==
    run_agent_3step_branches(analyze_user_query(user_query, history),
                             user_query, history, env)

-----------------------------------------------------------------------------
(* agent_service.py: run_agent, second definition (lines 709-785).  It is    *)
(* defined after the three-step one, so it is the function the name          *)
(* run_agent is bound to when routers/chat.py imports it.                    *)

\* "죄송합니다. Agent 시스템을 초기화할 수 없습니다. langgraph 패키지를 확인해주세요."
AgentInitFailedText == <<"<joesonghamnida. Agent siseutemeul chogihwahal su eopseumnida.>">>

\* "응답을 생성할 수 없습니다."
NoAnswerText == <<"<eungdabeul saengseonghal su eopseumnida.>">>

\* "죄송합니다. 일시적인 오류가 발생했습니다. 다시 시도해주세요. 🙏"
FallbackAnswerText == <<"<joesonghamnida. ilsijeogin oryuga balsaenghaetseumnida.>", "<pray>">>

\* 지역 어디 위치 / 고마워 감사 좋아: the rules of MockChatModel._generate.
mock_region_keywords == << <<"k_ji","k_yeok">>, <<"k_eo","k_di">>, <<"k_wi","k_chi">> >>
mock_thanks_keywords == << <<"k_go","k_ma","k_wo">>, <<"k_gam","k_sa">>, <<"k_joh","k_a">> >>

\* "어느 지역을 생각하고 계신가요? 🗺️ (서울, 부산, 대구 등)"
MockRegionText ==
    <<"<eoneu jiyeogeul saenggakago gyesingayo?>", " ", "(", "k_seo", "k_ul", ",", " ",
      "k_bu", "k_san", ",", " ", "k_dae", "k_gu", " ", "<deung>", ")">>

MockThanksText == <<"<cheonmaneyo! deo doumi piryohasimyeon>">>
MockModeText == <<"<Mock modeuimnida.>">>

MockChatModel_generate(user_input) ==
    IF AnyIn(mock_region_keywords, user_input) THEN MockRegionText
    ELSE IF AnyIn(mock_thanks_keywords, user_input) THEN MockThanksText
    ELSE MockModeText

\* list(set(tools_used)): each tool name once; the order of a set of str is not
\* determined, env.flip picks it.
RECURSIVE Unique(_)
Unique(names) ==
    IF names = <<>> THEN <<>>
    ELSE LET rest == Unique(Tail(names)) IN
         IF \E i \in 1..Len(rest) : rest[i] = Head(names) THEN rest
         ELSE <<Head(names)>> \o rest

Reverse(seq) == [i \in 1..Len(seq) |-> seq[Len(seq) + 1 - i]]

ListOfSet(names, flip) == IF flip THEN Reverse(Unique(names)) ELSE Unique(names)

\* The LangGraph run_agent.  env.agent: "none" (create_langchain_agent returned
\* None), "mock" (MockChatModel) or "llm" (a real chat model); env.invoke:
\* "raise", "empty" (no AI message with content) or "answer"; env.tool_calls:
\* the tool calls a real model made; env.flip.
run_agent(user_query, history, env) ==
    IF env.agent = "none"
    THEN [out |-> [status |-> "returned", answer |-> AgentInitFailedText,
                   conversation_history |-> history, tools_used |-> <<>>],
          calls |-> <<>>]
    ELSE IF env.invoke = "raise"
    THEN [out |-> [status |-> "returned", answer |-> FallbackAnswerText,
                   conversation_history |->
                       history \o <<UserMessage(user_query), AiMessage(FallbackAnswerText)>>,
                   tools_used |-> <<>>],
          calls |-> <<>>]
    ELSE LET made   == IF env.agent = "mock" THEN <<>> ELSE env.tool_calls
             said   == IF env.invoke = "empty" THEN <<>>
                       ELSE IF env.agent = "mock" THEN MockChatModel_generate(user_query)
                       ELSE GeneratedText
             answer == IF said = <<>> THEN NoAnswerText ELSE said
         IN  [out |-> [status |-> "returned", answer |-> answer,
                       conversation_history |->
                           history \o <<UserMessage(user_query), AiMessage(answer)>>,
                       tools_used |-> ListOfSet(made, env.flip)],
              calls |-> made]

-----------------------------------------------------------------------------
(* utils/session_manager.py.  A dict is a sequence of entries in insertion   *)
(* order: [id, messages] for _sessions, [id, location] for _location_cache.  *)

Keys(d) == {d[i].id : i \in 1..Len(d)}

IndexOf(d, id) == CHOOSE i \in 1..Len(d) : d[i].id = id

\* del d[id]
Without(d, id) == SelectSeq(d, LAMBDA e : e.id # id)

\* _sessions.get(conversation_id, [])
get_history(S, conversation_id) ==
    IF conversation_id \in Keys(S) THEN S[IndexOf(S, conversation_id)].messages ELSE <<>>

\* Faulty variant: _sessions.setdefault(conversation_id, []), which stores an
\* empty list under an id that was not stored.
sessions_after_get_history_setdefault(S, conversation_id) ==
    IF conversation_id \in Keys(S) THEN S
    ELSE Append(S, [id |-> conversation_id, messages |-> <<>>])

\* _sessions after get_history: .get(conversation_id, []) adds no key.
sessions_after_get_history(S, conversation_id) == S

\* Faulty variant: the messages are added to the stored list, not stored in its place.
save_history_extending(S, conversation_id, messages) ==
    IF conversation_id \in Keys(S)
    THEN [S EXCEPT ![IndexOf(S, conversation_id)].messages = @ \o messages]
    ELSE Append(S, [id |-> conversation_id, messages |-> messages])

\* _sessions[conversation_id] = messages: an existing key keeps its place in
\* the dict, a new key is added last.
save_history(S, conversation_id, messages) ==
    IF conversation_id \in Keys(S)
    THEN [S EXCEPT ![IndexOf(S, conversation_id)].messages = messages]
    ELSE Append(S, [id |-> conversation_id, messages |-> messages])

\* Faulty variant: only the cached location is dropped, the history stays.
clear_history_cache_only(S, C, conversation_id) ==
    [sessions |-> S, location_cache |-> Without(C, conversation_id)]

\* clear_history drops the id from _sessions and from _location_cache.
clear_history(S, C, conversation_id) ==
    [sessions |-> Without(S, conversation_id),
     location_cache |-> Without(C, conversation_id)]

\* _location_cache.get(conversation_id)
get_cached_location(C, conversation_id) ==
    IF conversation_id \in Keys(C) THEN C[IndexOf(C, conversation_id)].location ELSE None

\* Faulty variant: the location is written to every entry of the cache as well.
save_cached_location_everywhere(C, conversation_id, location) ==
    LET all == [i \in 1..Len(C) |-> [C[i] EXCEPT !.location = location]]
    IN  IF conversation_id \in Keys(C) THEN all
        ELSE Append(all, [id |-> conversation_id, location |-> location])

\* _location_cache[conversation_id] = location
save_cached_location(C, conversation_id, location) ==
    IF conversation_id \in Keys(C)
    THEN [C EXCEPT ![IndexOf(C, conversation_id)].location = location]
    ELSE Append(C, [id |-> conversation_id, location |-> location])

\* len(_sessions)
get_session_count(S) == Len(S)

\* add_message: the entry is appended to the list get_history returns and the
\* list is saved under the id.
add_message(S, conversation_id, role, content) ==
    save_history(S, conversation_id,
                 Append(get_history(S, conversation_id), [role |-> role, content |-> content]))

-----------------------------------------------------------------------------
(* routers/chat.py *)

\* request.conversation_id is Optional[str]: NoId is None.
NoId == "<None>"

\* `not conversation_id`: None and "" are falsy.
IdGiven(conversation_id) == conversation_id \notin {NoId, ""}

\* str(uuid.uuid4()): the n-th id minted, different from every other id.
uuid4(n) == "uuid-" \o ToString(n)

\* "죄송합니다. 일시적인 오류가 발생했습니다. 다시 시도해주세요."
ApologyText == <<"<joesonghamnida. ilsijeogin oryuga balsaenghaetseumnida.>">>

\* None where map data is expected: the value of result.get("map_data") when
\* the result dict has no such key, and the data of a response without a map.
NoMapData == [kind |-> "None", keys |-> {}, center |-> [lat |-> 0, lng |-> 0],
              markers |-> <<>>]

\* models/chat_schema.py, MapMarker(**marker): the fields name, lat, lng, desc.
MapMarker(marker) ==
    [name |-> marker.name, lat |-> marker.lat, lng |-> marker.lng, desc |-> marker.desc]

\* models/chat_schema.py, MapData(center=..., markers=[...]).
MapData(center, markers) ==
    [kind |-> "MapData", keys |-> {"center", "markers"}, center |-> center,
     markers |-> [i \in 1..Len(markers) |-> MapMarker(markers[i])]]

\* result.get("map_data") and result["map_data"].get("markers"), line 80: a
\* dict that is not empty, holding a list of markers that is not empty.
has_markers(map_data) ==
    /\ map_data.kind = "dict"
    /\ map_data.keys # {}
    /\ "markers" \in map_data.keys
    /\ map_data.markers # <<>>

\* An unhandled exception leaving the handler (the framework answers 500).
Unhandled ==
    [role |-> "<fault>", content |-> <<>>, type |-> "<fault>", data |-> NoMapData,
     conversation_id |-> NoId]

\* The steps of chat_message at which a fault can be raised, and whether the
\* handler's try block (lines 48-99) covers the step.
ChatSteps == {"get_history", "run_agent", "save_history", "response"}

\* Faulty variant: the response is built after the try block.
in_try_block_until_save(step) == step # "response"

in_try_block(step) == step \in ChatSteps

\* Faulty variant: the error path echoes the request's id as it is.
error_conversation_id_unminted(request_id, n) == request_id

\* request.conversation_id or str(uuid.uuid4()), minted after n earlier ids.
error_conversation_id(request_id, n) ==
    IF IdGiven(request_id) THEN request_id ELSE uuid4(n + 1)

\* Faulty variant: the response is a map whenever the result holds map data,
\* markers or not.
success_response_any_map_data(out, map_data, conversation_id) ==
    IF map_data.kind = "dict" /\ map_data.keys # {}
    THEN [role |-> "ai", content |-> out.answer, type |-> "map",
          data |-> MapData(map_data.center, map_data.markers),
          conversation_id |-> conversation_id]
    ELSE [role |-> "ai", content |-> out.answer, type |-> "text", data |-> NoMapData,
          conversation_id |-> conversation_id]

\* Lines 76-99: the response built from the agent's result.
success_response(out, map_data, conversation_id) ==
    IF has_markers(map_data)
    THEN [role |-> "ai", content |-> out.answer, type |-> "map",
          data |-> MapData(map_data.center, map_data.markers),
          conversation_id |-> conversation_id]
    ELSE [role |-> "ai", content |-> out.answer, type |-> "text", data |-> NoMapData,
          conversation_id |-> conversation_id]

\* Lines 101-112: the response of the except branch.
error_response(request_id, n) ==
    [role |-> "ai", content |-> ApologyText, type |-> "text", data |-> NoMapData,
     conversation_id |-> error_conversation_id(request_id, n)]

\* The name run_agent is defined twice in agent_service.py.  env.binding says
\* which definition the call at chat.py:63 reaches: "3step" (line 254) or
\* "langgraph" (line 709, the later one).  With "given", the name is bound to
\* a function that returns the dict env.result extended by the turn's entries.
call_run_agent(message, history, env) ==
    IF env.binding = "3step"
    THEN run_agent_3step(message, history, env)
    ELSE IF env.binding = "langgraph"
    THEN LET r == run_agent(message, history, env)
         IN  [out |-> r.out, calls |-> r.calls, analysis |-> NotAnalyzed]
    ELSE [out |-> [status |-> "returned", answer |-> env.result.answer,
                   conversation_history |->
                       history \o <<UserMessage(message), AiMessage(env.result.answer)>>,
                   tools_used |-> <<>>, map_data |-> env.result.map_data],
          calls |-> <<>>, analysis |-> NotAnalyzed]

\* result.get("map_data"), line 80.
result_get_map_data(out) ==
    IF "map_data" \in DOMAIN out THEN out.map_data ELSE NoMapData

\* result.get("location"): neither definition of run_agent returns the key.
result_get_location(out) == None

\* Lines 69-112, given the id cid of lines 50-52, the history loaded at line 58
\* and the value r of the run_agent call at line 63.  n1: the ids minted so far.
chat_message_after_agent(request, S, C, n1, env, cid, loaded, r) ==
    LET failed == IF env.fault = "get_history" THEN "get_history"
                  ELSE IF r.out.status = "raised" THEN "run_agent"
                  ELSE env.fault
        saved  == failed \in {"none", "response"}
        ran    == failed # "get_history"
        location == result_get_location(r.out)
        read   == IF ran THEN sessions_after_get_history(S, cid) ELSE S
    IN  [sessions       |-> IF saved
                            THEN save_history(read, cid, r.out.conversation_history)
                            ELSE read,
         location_cache |-> IF saved /\ Truthy(location)
                            THEN save_cached_location(C, cid, location) ELSE C,
         minted         |-> IF failed = "none" \/ IdGiven(request.conversation_id)
                            THEN n1 ELSE n1 + 1,
         response       |-> IF failed = "none"
                            THEN success_response(r.out, result_get_map_data(r.out), cid)
                            ELSE IF in_try_block(failed)
                            THEN error_response(request.conversation_id, n1)
                            ELSE Unhandled,
         conversation_id |-> cid,
         failed         |-> failed,
         saved          |-> saved,
         loaded         |-> loaded,
         analysis       |-> IF ran THEN r.analysis ELSE NotAnalyzed,
         calls          |-> IF ran THEN r.calls ELSE <<>>,
         map_data       |-> IF ran /\ r.out.status = "returned"
                            THEN result_get_map_data(r.out) ELSE NoMapData]

\* Lines 57-112, given the conversation id of lines 50-52.
chat_message_with_id(request, S, C, n1, env, cid, loaded) ==
    chat_message_after_agent(request, S, C, n1, env, cid, loaded,
                             call_run_agent(request.message, loaded, env))

\* The whole handler.  S, C: the session store before the call; n: the ids
\* minted before it; env.fault: the step that raises ("none" if no step does).
\* The value holds the store after the call and what the call did.
chat_message(request, S, C, n, env) ==
    IF IdGiven(request.conversation_id)
    THEN chat_message_with_id(request, S, C, n, env, request.conversation_id,
                              get_history(S, request.conversation_id))
    ELSE chat_message_with_id(request, S, C, n + 1, env, uuid4(n + 1),
                              get_history(S, uuid4(n + 1)))

-----------------------------------------------------------------------------
(* Bounded inputs of the direct calls *)

MaxQueryParts == 3
MaxHistLen == 2

\* 서울, 강남, 고마워, 추천, THANKS, " 놀이터"
QueryFragments == {
    <<"k_seo","k_ul">>, <<"k_gang","k_nam">>, <<"k_go","k_ma","k_wo">>,
    <<"k_chu","k_cheon">>, <<"T","H","A","N","K","S">>, <<" ","k_nol","k_i","k_teo">> }

RECURSIVE Concats(_)
Concats(n) ==
    IF n = 0 THEN {<<>>}
    ELSE LET shorter == Concats(n - 1)
         IN  shorter \cup {s \o f : s \in shorter, f \in QueryFragments}

Queries == Concats(MaxQueryParts)

\* 부산 가자, 놀이터
HistoryTexts == { <<"k_bu","k_san"," ","k_ga","k_ja">>, <<"k_nol","k_i","k_teo">> }

HistoryMessages == [role : {"user", "ai"}, content : HistoryTexts]

Histories == UNION {[1..n -> HistoryMessages] : n \in 0..MaxHistLen}

NoRequest == [message |-> <<>>, conversation_id |-> NoId]

NoTurn ==
    [op |-> "<none>", request |-> NoRequest, response |-> Unhandled,
     conversation_id |-> NoId, failed |-> "none", saved |-> FALSE,
     history |-> <<>>, analysis |-> NotAnalyzed, calls |-> <<>>,
     after_clear |-> FALSE, cleared_location |-> None, minted_before |-> 0,
     map_data |-> NoMapData]

IdleStore ==
    /\ sessions = <<>>
    /\ location_cache = <<>>
    /\ minted = 0
    /\ turn = NoTurn
    /\ cleared = {}
    /\ written = {}

-----------------------------------------------------------------------------
(* Direct calls of analyze_user_query *)

InitAnalyze ==
    /\ IdleStore
    /\ args = NoCall
    /\ returned = NoCall
    /\ query \in Queries
    /\ conversation_history \in Histories
    /\ analysis = NotAnalyzed
    /\ result = NoResult
    /\ tool_calls = <<>>

Analyze ==
    /\ analysis = NotAnalyzed
    /\ analysis' = analyze_user_query(query, conversation_history)
    /\ UNCHANGED <<sessions, location_cache, minted, turn, cleared, written,
                   query, conversation_history, result, tool_calls, args, returned>>

NextAnalyze == Analyze

SpecAnalyze == InitAnalyze /\ [][NextAnalyze]_vars

\* The user-role messages among the last HistoryWindow entries of the history.
RecentUserTexts(history) ==
    {history[i].content : i \in {k \in LastIndices(history, HistoryWindow) :
                                     history[k].role = "user"}}

\* C1: analyze_user_query returns emotion, need_location or ready; ready carries
\* a location, and need_location is returned only when neither the query nor
\* any user message among the last 10 history entries holds a location.
C1_AnalysisInvariant ==
    analysis # NotAnalyzed =>
        /\ analysis.type \in {"emotion", "need_location", "ready"}
        /\ analysis.type = "ready" => Truthy(analysis.location)
        /\ analysis.type = "need_location" =>
              /\ analysis.location = None
              /\ extract_location(query) = None
              /\ \A t \in RecentUserTexts(conversation_history) :
                     extract_location(t) = None

\* need_location although an ai message of the history names a place.
C1_WitnessNeedLocation ==
    /\ analysis.type = "need_location"
    /\ \E i \in 1..Len(conversation_history) :
          /\ conversation_history[i].role = "ai"
          /\ Truthy(extract_location(conversation_history[i].content))

\* The emotion keywords occurring in the lowered text.
EmotionKeywordsIn(text) ==
    {j \in 1..Len(emotion_keywords) : Contains(emotion_keywords[j], lower(text))}

\* The length below which the spec calls a query short.
ShortQueryLength == 20

\* C7: a query under 20 characters that holds exactly one emotion keyword and
\* no action keyword is classified emotion, whatever the history holds and
\* whether or not the query names a location.
C7_EmotionClassified ==
    (/\ analysis # NotAnalyzed
     /\ Cardinality(EmotionKeywordsIn(query)) = 1
     /\ ~AnyIn(action_keywords, lower(query))
     /\ Len(query) < ShortQueryLength)
    => analysis.type = "emotion"

\* An emotion query that names a place, with a place in the history as well.
C7_WitnessEmotionWithLocation ==
    /\ analysis.type = "emotion"
    /\ Cardinality(EmotionKeywordsIn(query)) = 1
    /\ Len(query) < ShortQueryLength
    /\ Truthy(extract_location(query))
    /\ Truthy(extract_location_from_history(conversation_history))

\* The filter a location is searched with has this city and this district
\* (None: the key is not set).
IsFilter(f, city, gu) == f = [region_city |-> city, region_gu |-> gu]

\* C20: on a ready turn the search filter built from the location is never
\* empty: a location "city district" gives region_city and region_gu, a
\* location of one word gives region_city alone; a query that names a Seoul
\* district and no city (강남 놀이터, no location in the history needed) is
\* ready with "서울 <district>" and filtered on 서울 and the district.
C20_FilterFromLocation ==
    (analysis # NotAnalyzed /\ analysis.type = "ready") =>
        LET f == rag_filters(analysis.location)
            c == FirstIn(cities, query)
            d == FirstIn(districts, query)
        IN  /\ f.region_city # None
            /\ \E i \in 1..Len(cities) :
                  \/ analysis.location = cities[i] /\ IsFilter(f, cities[i], None)
                  \/ \E j \in 1..Len(districts) :
                        /\ analysis.location = cities[i] \o <<" ">> \o districts[j]
                        /\ IsFilter(f, cities[i], districts[j])
            /\ (c = 0 /\ d # 0) =>
                  /\ analysis.location = Seoul \o <<" ">> \o districts[d]
                  /\ IsFilter(f, Seoul, districts[d])

\* 강남 놀이터 with an empty history: ready, searched in 서울 / 강남.
C20_WitnessDistrictOnly ==
    /\ analysis # NotAnalyzed
    /\ analysis.type = "ready"
    /\ query = <<"k_gang", "k_nam", " ", "k_nol", "k_i", "k_teo">>
    /\ conversation_history = <<>>
    /\ analysis.location = <<"k_seo", "k_ul", " ", "k_gang", "k_nam">>
    /\ rag_filters(analysis.location) =
          [region_city |-> <<"k_seo", "k_ul">>, region_gu |-> <<"k_gang", "k_nam">>]

-----------------------------------------------------------------------------
(* Direct calls of the session manager *)

StoreIds == {"c1", "c2"}

InitStore ==
    /\ IdleStore
    /\ args = NoCall
    /\ returned = NoCall
    /\ query = <<>>
    /\ conversation_history = <<>>
    /\ analysis = NotAnalyzed
    /\ result = NoResult
    /\ tool_calls = <<>>

\* `written` after an operation on conversation id `id`: the entries of the
\* other ids are marked as having seen an operation on another id.
Disturbed(id) ==
    {IF w.id = id THEN w ELSE [w EXCEPT !.disturbed = TRUE] : w \in written}

\* save_history(id, h)
SaveHistory ==
    /\ \E id \in StoreIds, h \in Histories :
          /\ sessions' = save_history(sessions, id, h)
          /\ written' = {w \in Disturbed(id) : w.id # id}
                            \cup {[id |-> id, messages |-> h, disturbed |-> FALSE]}
          /\ turn' = [NoTurn EXCEPT !.op = "save_history", !.conversation_id = id]
    /\ UNCHANGED <<location_cache, minted, cleared,
                   query, conversation_history, analysis, result, tool_calls, args, returned>>

\* get_history(id); turn.history is the value returned.
GetHistory ==
    /\ \E id \in StoreIds :
          /\ written' = Disturbed(id)
          /\ turn' = [NoTurn EXCEPT !.op = "get_history", !.conversation_id = id,
                                    !.history = get_history(sessions, id)]
    /\ UNCHANGED <<sessions, location_cache, minted, cleared,
                   query, conversation_history, analysis, result, tool_calls, args, returned>>

\* clear_history(id)
ClearHistory ==
    /\ \E id \in StoreIds :
          \E c \in {clear_history(sessions, location_cache, id)} :
          /\ sessions' = c.sessions
          /\ location_cache' = c.location_cache
          /\ written' = {w \in Disturbed(id) : w.id # id}
          /\ turn' = [NoTurn EXCEPT !.op = "clear_history", !.conversation_id = id]
    /\ UNCHANGED <<minted, cleared,
                   query, conversation_history, analysis, result, tool_calls, args, returned>>

NextStore == SaveHistory \/ GetHistory \/ ClearHistory

SpecStore == InitStore /\ [][NextStore]_vars

\* C2: get_history(id) returns exactly the messages last given to
\* save_history(id, .), same entries in the same order with the same roles,
\* whatever get, save and clear operations on other ids came in between.
C2_SessionRoundTrip ==
    turn.op = "get_history" =>
        \A w \in written : w.id = turn.conversation_id => turn.history = w.messages

\* A non-empty history read back after operations on another id.
C2_WitnessReadAfterOtherIds ==
    /\ turn.op = "get_history"
    /\ \E w \in written :
          /\ w.id = turn.conversation_id
          /\ w.disturbed
          /\ Len(w.messages) >= 2
          /\ w.messages[1].role # w.messages[2].role
    /\ Len(sessions) >= 2

-----------------------------------------------------------------------------
(* Direct calls of run_agent, chained as in test_agent_history.py *)

MaxTurns == 2

\* 고마워 / 놀이터 찾아줘 / 강남 놀이터 찾아줘
AgentQueries == {
    <<"k_go","k_ma","k_wo">>,
    <<"k_nol","k_i","k_teo"," ","k_chaj","k_a","k_jwo">>,
    <<"k_gang","k_nam"," ","k_nol","k_i","k_teo"," ","k_chaj","k_a","k_jwo">> }

\* A facility document as search_and_rerank returns it (metadata only).
Doc1 ==
    [facility_name |-> <<"<facility-1>">>, region_gu |-> <<"k_gang","k_nam">>,
     category1 |-> "<category>", price |-> "<price>"]

FoundOutcomes ==
    { [raises |-> FALSE, docs |-> <<>>], [raises |-> FALSE, docs |-> <<Doc1>>],
      [raises |-> TRUE, docs |-> <<>>] }

Env3Step ==
    [weather : {"clear", "<raise>"}, found : FoundOutcomes,
     llm : {"mock", "gpu_ok", "gpu_fail", "service_raise"}]

ToolCallLists ==
    { <<>>, <<"weather_tool", "rag_search_tool">>, <<"rag_search_tool", "rag_search_tool">> }

\* MockChatModel always answers and calls no tool; a real model may do either.
EnvAgent ==
    {e \in [agent : {"none", "mock", "llm"}, invoke : {"raise", "empty", "answer"},
            tool_calls : ToolCallLists, flip : BOOLEAN] :
        /\ e.agent = "none" => (e.invoke = "answer" /\ e.tool_calls = <<>> /\ ~e.flip)
        /\ e.agent = "mock" => (e.invoke # "empty" /\ e.tool_calls = <<>> /\ ~e.flip)
        /\ e.invoke = "raise" => (e.tool_calls = <<>> /\ ~e.flip)}

InitAgent ==
    /\ IdleStore
    /\ args = NoCall
    /\ returned = NoCall
    /\ query = <<>>
    /\ conversation_history = <<>>
    /\ analysis = NotAnalyzed
    /\ result = NoResult
    /\ tool_calls = <<>>

\* A call of the three-step run_agent (agent_service.py:254).
RunAgent3Step ==
    /\ result = NoResult
    /\ \E q \in AgentQueries, env \in Env3Step :
          \E r \in {run_agent_3step(q, conversation_history, env)} :
          /\ query' = q
          /\ result' = r.out
          /\ tool_calls' = r.calls
          /\ analysis' = r.analysis
          /\ args' = [op |-> "run_agent", rag_result |-> r.rag_result]
    /\ UNCHANGED <<sessions, location_cache, minted, turn, cleared, written,
                   conversation_history, returned>>

\* A call of the LangGraph run_agent (agent_service.py:709).
RunAgentLangGraph ==
    /\ result = NoResult
    /\ \E q \in AgentQueries, env \in EnvAgent :
          \E r \in {run_agent(q, conversation_history, env)} :
          /\ query' = q
          /\ result' = r.out
          /\ tool_calls' = r.calls
    /\ UNCHANGED <<sessions, location_cache, minted, turn, cleared, written,
                   conversation_history, analysis, args, returned>>

\* The next call is given the history the last call returned
\* (test_agent_history.py:19, 26).
Chain ==
    /\ result.status = "returned"
    /\ Len(result.conversation_history) < 2 * MaxTurns
    /\ conversation_history' = result.conversation_history
    /\ query' = <<>>
    /\ analysis' = NotAnalyzed
    /\ result' = NoResult
    /\ tool_calls' = <<>>
    /\ args' = NoCall
    /\ UNCHANGED <<sessions, location_cache, minted, turn, cleared, written, returned>>

NextAgent == RunAgent3Step \/ RunAgentLangGraph \/ Chain

SpecAgent == InitAgent /\ [][NextAgent]_vars

C8_HistoryAppendedEveryBranch ==
    result.status = "returned" =>
        result.conversation_history =
            conversation_history \o <<UserMessage(query), AiMessage(result.answer)>>

\* C19 (as claimed): when the search of a ready turn gave an empty list, the
\* answer does not announce that recommended places were found.
C19_NothingFoundAnswer ==
    (/\ analysis # NotAnalyzed
     /\ analysis.type = "ready"
     /\ result.status = "returned"
     /\ args # NoCall
     /\ args.rag_result = <<>>)
        => ~AnnouncesFound(result.answer)

-----------------------------------------------------------------------------
(* The HTTP operations of routers/chat.py on the session store *)

MaxMessages == 4
MaxMinted == 2

\* conversation_id of a request: absent, empty, or a client's id.
RequestIds == {NoId, "", "c1"}

\* 놀이터 찾아줘 / 강남 놀이터 찾아줘
ChatQueries == {
    <<"k_nol","k_i","k_teo"," ","k_chaj","k_a","k_jwo">>,
    <<"k_gang","k_nam"," ","k_nol","k_i","k_teo"," ","k_chaj","k_a","k_jwo">> }

Faults == {"none", "get_history", "save_history", "response"}

\* What the collaborators do during one chat_message call: with the three-step
\* definition, both tools answer, both tools raise, or get_llm_service raises.
ChatEnv3Step ==
    {e \in [binding : {"3step"}, fault : {"none"}, weather : {"clear", "<raise>"},
            found : FoundOutcomes, llm : {"mock", "service_raise"},
            agent : {"none"}, invoke : {"answer"}, tool_calls : {<<>>}, flip : {FALSE}] :
        \/ e.weather = "clear" /\ e.found.docs # <<>>
        \/ e.weather = "<raise>" /\ e.found.raises /\ e.llm = "mock"}

\* With the LangGraph definition: no agent, invoke raises, or a model that
\* calls both tools and answers.  A fault of the handler's own steps is
\* combined with the last of these.
ChatEnvLangGraph ==
    {e \in [binding : {"langgraph"}, fault : Faults, weather : {"clear"},
            found : {[raises |-> FALSE, docs |-> <<>>]}, llm : {"mock"},
            agent : {"none", "llm"}, invoke : {"raise", "answer"},
            tool_calls : {<<>>, <<"weather_tool", "rag_search_tool">>}, flip : {FALSE}] :
        /\ e.agent = "none" => (e.invoke = "answer" /\ e.tool_calls = <<>>)
        /\ e.invoke # "answer" => e.tool_calls = <<>>
        /\ (e.agent = "llm" /\ e.invoke = "answer") => e.tool_calls # <<>>
        /\ e.fault # "none" => (e.agent = "llm" /\ e.invoke = "answer")}

ChatEnv == ChatEnv3Step \cup ChatEnvLangGraph

\* The ids in `cleared`, and the location the deleted turns of an id resolved.
ClearedIds == {x.id : x \in cleared}

ClearedLocation(id) ==
    IF id \in ClearedIds THEN (CHOOSE x \in cleared : x.id = id).location ELSE None

RECURSIVE StoredMessages(_)
StoredMessages(S) ==
    IF S = <<>> THEN 0 ELSE Len(Head(S).messages) + StoredMessages(Tail(S))

Init ==
    /\ sessions = <<>>
    /\ location_cache = <<>>
    /\ minted = 0
    /\ turn = NoTurn
    /\ cleared = {}
    /\ written = {}
    /\ args = NoCall
    /\ returned = NoCall
    /\ query = <<>>
    /\ conversation_history = <<>>
    /\ analysis = NotAnalyzed
    /\ result = NoResult
    /\ tool_calls = <<>>

\* POST /chat/message
ChatMessage ==
    /\ StoredMessages(sessions) + 2 <= MaxMessages
    /\ \E id \in RequestIds, q \in ChatQueries, env \in ChatEnv :
          \E request \in {[message |-> q, conversation_id |-> id]} :
          \E c \in {chat_message(request, sessions, location_cache, minted, env)} :
              /\ c.minted <= MaxMinted
              /\ sessions' = c.sessions
              /\ location_cache' = c.location_cache
              /\ minted' = c.minted
              /\ cleared' = IF c.saved
                            THEN {x \in cleared : x.id # c.conversation_id}
                            ELSE cleared
              /\ turn' = [op |-> "chat_message", request |-> request,
                          response |-> c.response, conversation_id |-> c.conversation_id,
                          failed |-> c.failed, saved |-> c.saved, history |-> c.loaded,
                          analysis |-> c.analysis, calls |-> c.calls,
                          after_clear |-> c.conversation_id \in ClearedIds,
                          cleared_location |-> ClearedLocation(c.conversation_id),
                          minted_before |-> minted, map_data |-> c.map_data]
    /\ UNCHANGED <<written, query, conversation_history, analysis, result, tool_calls, args, returned>>

\* DELETE /chat/history/{conversation_id}
ClearConversation ==
    /\ \E id \in RequestIds \ {NoId, ""} :
          \E c \in {clear_history(sessions, location_cache, id)} :
          /\ sessions' = c.sessions
          /\ location_cache' = c.location_cache
          /\ cleared' =
                IF get_history(sessions, id) # <<>>
                THEN cleared \cup
                     {[id |-> id,
                       location |-> extract_location_from_history(get_history(sessions, id))]}
                ELSE cleared
          /\ turn' = [NoTurn EXCEPT !.op = "clear_conversation", !.conversation_id = id]
    /\ UNCHANGED <<minted, written, query, conversation_history, analysis, result, tool_calls, args, returned>>

Next == ChatMessage \/ ClearConversation

Spec == Init /\ [][Next]_vars

\* stored holds nothing but the user entry and the ai entry of the last chat
\* turn (the ai entry is the response's content when the call succeeded).
OnlyTurnEntries(stored) ==
    /\ Len(stored) <= 2
    /\ Len(stored) >= 1 => stored[1] = UserMessage(turn.request.message)
    /\ Len(stored) = 2 =>
          /\ stored[2].role = "ai"
          /\ turn.failed = "none" => stored[2].content = turn.response.content

C4_ConversationIdReturned ==
    turn.op = "chat_message" =>
        /\ turn.response # Unhandled => IdGiven(turn.response.conversation_id)
        /\ IdGiven(turn.request.conversation_id) =>
              turn.response.conversation_id = turn.request.conversation_id
        /\ ~IdGiven(turn.request.conversation_id) =>
              \E k \in (turn.minted_before + 1)..minted :
                  turn.response.conversation_id = uuid4(k)

\* A failed call whose request gave no id.
C4_WitnessFailedWithoutId ==
    /\ turn.op = "chat_message"
    /\ turn.failed # "none"
    /\ ~IdGiven(turn.request.conversation_id)
    /\ turn.response.conversation_id = uuid4(minted)
    /\ minted > turn.minted_before

\* C5: no fault leaves chat_message: whichever step raises, the caller gets a
\* response of the normal shape, at worst the apology text with type text and
\* no map data.
C5_NoFaultEscapes ==
    turn.op = "chat_message" =>
        /\ turn.response # Unhandled
        /\ turn.response.role = "ai"
        /\ turn.response.type \in {"text", "map"}
        /\ turn.failed # "none" =>
              /\ turn.response.content = ApologyText
              /\ turn.response.type = "text"
              /\ turn.response.data = NoMapData

\* The last step of the handler, the construction of the response, raised.
C5_WitnessResponseStepFailed ==
    /\ turn.op = "chat_message"
    /\ turn.failed = "response"
    /\ turn.response.content = ApologyText

\* C9 (as claimed): after a chat_message call that did not take the exception
\* path, the stored history of its conversation id is not empty.
C9_StoredHistoryNonEmpty ==
    (turn.op = "chat_message" /\ turn.failed = "none") =>
        get_history(sessions, turn.conversation_id) # <<>>

\* C10 (as claimed): after a stored turn that ran the search tool, the history
\* of the conversation holds a system-role entry.
C10_SystemEntryAfterSearch ==
    (/\ turn.op = "chat_message"
     /\ turn.saved
     /\ \E i \in 1..Len(turn.calls) : turn.calls[i] \in {"call_rag_tool", "rag_search_tool"})
        => \E i \in 1..Len(get_history(sessions, turn.conversation_id)) :
               get_history(sessions, turn.conversation_id)[i].role = "system"

\* C12 (as claimed): after a stored chat turn classified ready with location
\* L, get_cached_location of the conversation id is L.
C12_LocationCachedAfterReady ==
    (/\ turn.op = "chat_message"
     /\ turn.saved
     /\ turn.analysis # NotAnalyzed
     /\ turn.analysis.type = "ready")
        => get_cached_location(location_cache, turn.conversation_id) = turn.analysis.location

-----------------------------------------------------------------------------
(* services/map_service.py.  A coordinate is a whole number of 0.0001 degree. *)

\* A dict read with d[key]: the keys it holds are d.keys.
HasKey(d, key) == key \in d.keys

\* {"lat": 37.5665, "lng": 126.9780}, 서울 시청
FallbackCenter == [lat |-> 375665, lng |-> 1269780]

\* The exceptions of the try body, by class.
JSONDecodeError == "JSONDecodeError"
KeyError == "KeyError"
TypeError == "TypeError"

\* "JSON 파싱 실패"
JsonParseFailedText == "<JSON pasing silpae>"

\* The value of a call that returned, and of one that an exception left.
NoError == "<absent>"

\* json.loads(markers_json).  markers_json.kind: "not_str" (not a str: TypeError),
\* "invalid" (no JSON document), "list" (a JSON array of objects, .value),
\* "falsy" (null, 0, "", {} or false) or "number" (a non-zero number).
json_loads(markers_json) ==
    CASE markers_json.kind = "not_str" -> [raises |-> TypeError, message |-> "<not str>"]
      [] markers_json.kind = "invalid" -> [raises |-> JSONDecodeError, message |-> "<json>"]
      [] OTHER -> [raises |-> "", message |-> ""]

\* round(x / n, 4) for x a sum of coordinates: the nearest whole number of
\* 0.0001 degree, a tie going to the even one.
RoundDiv(x, n) ==
    LET q == x \div n
        r == x % n
    IN  IF 2 * r < n THEN q
        ELSE IF 2 * r > n THEN q + 1
        ELSE IF q % 2 = 0 THEN q ELSE q + 1

RECURSIVE Sum(_, _)
Sum(markers, key) ==
    IF markers = <<>> THEN 0
    ELSE (IF key = "lat" THEN Head(markers).lat ELSE Head(markers).lng)
             + Sum(Tail(markers), key)

\* Lines 50-55: one entry of formatted_markers.
FormattedMarker(marker) ==
    [name |-> IF HasKey(marker, "name") THEN marker.name ELSE "Unknown",
     lat  |-> marker.lat,
     lng  |-> marker.lng,
     desc |-> IF HasKey(marker, "desc") THEN marker.desc ELSE ""]

\* Lines 33-73: the value the try body returns, or the exception it raises.
get_map_markers_body(markers_json) ==
    LET loaded  == json_loads(markers_json)
        markers == markers_json.value
    IN  IF loaded.raises # ""
        THEN [raises |-> loaded.raises, message |-> loaded.message]
        ELSE IF markers_json.kind = "falsy" \/ (markers_json.kind = "list" /\ markers = <<>>)
        THEN [raises |-> "", center |-> FallbackCenter, markers |-> <<>>,
              link |-> <<>>, error |-> NoError]
        ELSE IF markers_json.kind = "number"
        THEN [raises |-> TypeError, message |-> "<not iterable>"]
        ELSE IF \E i \in 1..Len(markers) : ~HasKey(markers[i], "lat")
        THEN [raises |-> KeyError, message |-> "'lat'"]
        ELSE IF \E i \in 1..Len(markers) : ~HasKey(markers[i], "lng")
        THEN [raises |-> KeyError, message |-> "'lng'"]
        ELSE IF ~HasKey(markers[1], "name")
        THEN [raises |-> KeyError, message |-> "'name'"]
        ELSE [raises |-> "",
              center |-> [lat |-> RoundDiv(Sum(markers, "lat"), Len(markers)),
                          lng |-> RoundDiv(Sum(markers, "lng"), Len(markers))],
              markers |-> [i \in 1..Len(markers) |-> FormattedMarker(markers[i])],
              link |-> <<"https://map.kakao.com/link/to/", markers[1].name, ",",
                         ToString(markers[1].lat), ",", ToString(markers[1].lng)>>,
              error |-> NoError]

\* Faulty variant: only the JSON parse error has a handler.
handled_json_only(exception) == exception = JSONDecodeError

\* The except clauses of lines 75 and 84: JSONDecodeError, then Exception.
handled(exception) == exception \in {JSONDecodeError, KeyError, TypeError}

\* get_map_markers: the dict returned, or status "raised".
get_map_markers(markers_json) ==
    LET body == get_map_markers_body(markers_json)
    IN  IF body.raises = ""
        THEN [status |-> "returned", center |-> body.center, markers |-> body.markers,
              link |-> body.link, error |-> body.error]
        ELSE IF ~handled(body.raises)
        THEN [status |-> "raised", center |-> FallbackCenter, markers |-> <<>>,
              link |-> <<>>, error |-> body.raises]
        ELSE [status |-> "returned", center |-> FallbackCenter, markers |-> <<>>,
              link |-> <<>>,
              error |-> IF body.raises = JSONDecodeError THEN JsonParseFailedText
                        ELSE body.message]

-----------------------------------------------------------------------------
(* Direct calls of get_map_markers *)

MaxMarkers == 2

\* The marker objects of the JSON text: any of the four keys may be missing.
MarkerDicts ==
    {[keys |-> k,
      name |-> IF "name" \in k THEN "<park>" ELSE "",
      lat  |-> IF "lat" \in k THEN lat ELSE 0,
      lng  |-> IF "lng" \in k THEN 1270000 ELSE 0,
      desc |-> IF "desc" \in k THEN "<desc>" ELSE ""] :
        k \in SUBSET {"name", "lat", "lng", "desc"}, lat \in {375000, 375003}}

MarkerLists == UNION {[1..n -> MarkerDicts] : n \in 0..MaxMarkers}

MarkersJson ==
    {[kind |-> "list", value |-> l] : l \in MarkerLists}
        \cup {[kind |-> k, value |-> <<>>] : k \in {"not_str", "invalid", "falsy", "number"}}

InitMap ==
    /\ IdleStore
    /\ query = <<>>
    /\ conversation_history = <<>>
    /\ analysis = NotAnalyzed
    /\ result = NoResult
    /\ tool_calls = <<>>
    /\ args \in {[op |-> "get_map_markers", markers_json |-> j] : j \in MarkersJson}
    /\ returned = NoCall

GetMapMarkers ==
    /\ returned = NoCall
    /\ returned' = get_map_markers(args.markers_json)
    /\ UNCHANGED <<sessions, location_cache, minted, turn, cleared, written, query,
                   conversation_history, analysis, result, tool_calls, args>>

NextMap == GetMapMarkers

SpecMap == InitMap /\ [][NextMap]_vars

\* C16: get_map_markers raises for no input, and an empty marker list and a
\* text that is no JSON document both give the fallback center (37.5665,
\* 126.9780) with no markers.
C16_MapMarkersNeverRaises ==
    returned # NoCall =>
        /\ returned.status = "returned"
        /\ (\/ args.markers_json.kind = "invalid"
            \/ (args.markers_json.kind = "list" /\ args.markers_json.value = <<>>)) =>
              /\ returned.center = [lat |-> 375665, lng |-> 1269780]
              /\ returned.markers = <<>>

\* A marker list whose entry has no "lat" key was passed and the call returned.
C16_WitnessMissingKeyCaught ==
    /\ returned # NoCall
    /\ args.markers_json.kind = "list"
    /\ \E i \in 1..Len(args.markers_json.value) : "lat" \notin args.markers_json.value[i].keys
    /\ returned.status = "returned"
    /\ returned.error = "'lat'"

\* The entries of a marker list that hold both coordinates, in input order.
WithCoordinates(markers) ==
    SelectSeq(markers, LAMBDA m : "lat" \in m.keys /\ "lng" \in m.keys)

\* C17 (as claimed): entries without a coordinate pair are skipped and every
\* entry with coordinates gives a marker, in input order; the fallback center
\* with no markers and an error is returned only when no entry has coordinates.
C17_EntriesWithoutCoordinatesSkipped ==
    (returned # NoCall /\ args.markers_json.kind = "list") =>
        LET resolvable == WithCoordinates(args.markers_json.value)
        IN  /\ returned.status = "returned"
            /\ Len(returned.markers) = Len(resolvable)
            /\ \A i \in 1..Len(resolvable) :
                  /\ returned.markers[i].lat = resolvable[i].lat
                  /\ returned.markers[i].lng = resolvable[i].lng
            /\ returned.error # NoError => resolvable = <<>>

-----------------------------------------------------------------------------
(* services/rag_service.py.  A score is a whole number of tenths.            *)

\* settings.SIMILARITY_THRESHOLD = 0.3
SIMILARITY_THRESHOLD == 3

\* A document that _rerank gave no "score" key.
NoScore == -1

\* _format_results: the entries of the index's answer whose text is not blank,
\* in the order of the answer.  hit.content is the text after strip().
format_results(hits) ==
    LET kept == SelectSeq(hits, LAMBDA h : h.content # "")
    IN  [i \in 1..Len(kept) |->
            [content |-> kept[i].content, metadata |-> kept[i].metadata,
             score |-> NoScore]]

\* Line 137: meta.get("facility_name") or meta.get("Name").  A key that is
\* missing, None or "" is the value "".
facility_name(d) ==
    IF d.metadata.facility_name # "" THEN d.metadata.facility_name ELSE d.metadata.Name

\* Faulty variant: a name is compared with the name of the document before
\* only, so a name can come back after another one.
RECURSIVE dedupe_adjacent_from(_, _)
dedupe_adjacent_from(docs, seen) ==
    IF docs = <<>> THEN <<>>
    ELSE IF facility_name(Head(docs)) # "" /\ facility_name(Head(docs)) \notin seen
    THEN <<Head(docs)>> \o dedupe_adjacent_from(Tail(docs), {facility_name(Head(docs))})
    ELSE dedupe_adjacent_from(Tail(docs), seen)

dedupe_adjacent(docs) == dedupe_adjacent_from(docs, {})

\* Faulty variant: dropping a repeated name clears it from seen.
RECURSIVE dedupe_forgetting_from(_, _)
dedupe_forgetting_from(docs, seen) ==
    IF docs = <<>> THEN <<>>
    ELSE IF facility_name(Head(docs)) # "" /\ facility_name(Head(docs)) \notin seen
    THEN <<Head(docs)>> \o
         dedupe_forgetting_from(Tail(docs), seen \cup {facility_name(Head(docs))})
    ELSE dedupe_forgetting_from(Tail(docs), seen \ {facility_name(Head(docs))})

dedupe_forgetting(docs) == dedupe_forgetting_from(docs, {})

\* _dedupe: the first document of each facility name; a document without a
\* name is dropped.
RECURSIVE dedupe_from(_, _)
dedupe_from(docs, seen) ==
    IF docs = <<>> THEN <<>>
    ELSE IF facility_name(Head(docs)) # "" /\ facility_name(Head(docs)) \notin seen
    THEN <<Head(docs)>> \o dedupe_from(Tail(docs), seen \cup {facility_name(Head(docs))})
    ELSE dedupe_from(Tail(docs), seen)

dedupe(docs) == dedupe_from(docs, {})

\* list[:n] for n >= 0
Take(list, n) == SubSeq(list, 1, IF n < Len(list) THEN n ELSE Len(list))

\* scored.sort(key=score, reverse=True): descending, documents of equal score
\* keep their order.
RECURSIVE sort_by_score(_)
sort_by_score(docs) ==
    IF docs = <<>> THEN <<>>
    ELSE LET rest == sort_by_score(Tail(docs))
             ahead == SelectSeq(rest, LAMBDA d : d.score > Head(docs).score)
             after == SelectSeq(rest, LAMBDA d : d.score <= Head(docs).score)
         IN  ahead \o <<Head(docs)>> \o after

\* Lines 155-157: what _rerank returns when the cross-encoder raises.
rerank_failed(docs) == docs

\* _rerank.  encoder.raises: predict raises; encoder.scores: the score predict
\* gives a document, by facility name.
rerank(docs, encoder, rerank_top_k) ==
    IF encoder.raises THEN rerank_failed(docs)
    ELSE LET scored ==
                 SelectSeq([i \in 1..Len(docs) |->
                               [docs[i] EXCEPT !.score = encoder.scores[facility_name(docs[i])]]],
                           LAMBDA d : d.score >= SIMILARITY_THRESHOLD)
         IN  Take(sort_by_score(scored), rerank_top_k)

\* Lines 89-99: the rerank stage of search_and_rerank.
rerank_stage(unique_docs, encoder, rerank_top_k) ==
    IF encoder.loaded
    THEN LET reranked == rerank(unique_docs, encoder, rerank_top_k)
         IN  IF reranked = <<>> THEN Take(unique_docs, rerank_top_k) ELSE reranked
    ELSE Take(unique_docs, rerank_top_k)

\* Line 69: k = top_k or settings.MMR_TOP_K (None and 0 are falsy).
effective_top_k(top_k, mmr_top_k) ==
    IF top_k.given /\ top_k.value # 0 THEN top_k.value ELSE mmr_top_k

\* Faulty variant: an exception of the index query is not caught.
caught_at_top_level_format_only(stage) == stage = "format"

\* Lines 68 and 106: the try block holds the index query and the formatting.
caught_at_top_level(stage) == stage \in {"search", "format"}

\* search_and_rerank.  a.index: "raise" (client.search raises), "malformed"
\* (_format_results raises on the answer) or "ok" with the answer a.hits.  The
\* value holds the list returned and the list the rerank stage left.
search_and_rerank(a) ==
    IF a.index # "ok"
    THEN LET stage == IF a.index = "raise" THEN "search" ELSE "format"
         IN  [status |-> IF caught_at_top_level(stage) THEN "returned" ELSE "raised",
              docs |-> <<>>, reranked |-> <<>>, failed |-> stage]
    ELSE LET k == effective_top_k(a.top_k, a.settings.MMR_TOP_K)
             unique_docs == dedupe(format_results(a.hits))
             staged == rerank_stage(unique_docs, a.encoder, a.settings.RERANK_TOP_K)
         IN  [status |-> "returned",
              docs |-> IF a.use_mmr THEN Take(staged, k) ELSE staged,
              reranked |-> staged,
              failed |-> IF a.encoder.loaded /\ a.encoder.raises THEN "rerank" ELSE ""]

-----------------------------------------------------------------------------
(* Direct calls of RAGService.search_and_rerank *)

MaxDocs == 2
MaxTopK == 2

\* What the index answers with: a document of facility A or B, a blank
\* document, a document without facility name.
Hits ==
    { [content |-> "<text>", metadata |-> [facility_name |-> "A", Name |-> ""]],
      [content |-> "<text>", metadata |-> [facility_name |-> "", Name |-> "B"]],
      [content |-> "", metadata |-> [facility_name |-> "A", Name |-> ""]],
      [content |-> "<text>", metadata |-> [facility_name |-> "", Name |-> ""]] }

HitLists == UNION {[1..n -> Hits] : n \in 0..MaxDocs}

\* Scores below, at and above the threshold.
Scores == {SIMILARITY_THRESHOLD - 1, SIMILARITY_THRESHOLD, SIMILARITY_THRESHOLD + 2}

NoScores == [n \in {"A", "B"} |-> NoScore]

\* No cross-encoder (CPU), one whose predict raises, one that scores.
Encoders ==
    {[loaded |-> FALSE, raises |-> FALSE, scores |-> NoScores],
     [loaded |-> TRUE, raises |-> TRUE, scores |-> NoScores]}
        \cup {[loaded |-> TRUE, raises |-> FALSE, scores |-> sc] : sc \in [{"A", "B"} -> Scores]}

\* top_k: None, or a number from 0 on.
TopKs == {[given |-> FALSE, value |-> 0]} \cup {[given |-> TRUE, value |-> n] : n \in 0..MaxTopK}

\* RERANK_TOP_K and MMR_TOP_K as the environment sets them.
RagSettings == [RERANK_TOP_K : 1..MaxDocs, MMR_TOP_K : 1..MaxTopK]

SearchCalls ==
    {[op |-> "search_and_rerank", index |-> "ok", hits |-> h, encoder |-> e,
      top_k |-> k, use_mmr |-> m, settings |-> st] :
        h \in HitLists, e \in Encoders, k \in TopKs, m \in BOOLEAN, st \in RagSettings}
    \cup
    {[op |-> "search_and_rerank", index |-> x, hits |-> <<>>, encoder |-> e,
      top_k |-> k, use_mmr |-> TRUE, settings |-> st] :
        x \in {"raise", "malformed"}, e \in Encoders, k \in TopKs, st \in RagSettings}

InitRag ==
    /\ IdleStore
    /\ query = <<>>
    /\ conversation_history = <<>>
    /\ analysis = NotAnalyzed
    /\ result = NoResult
    /\ tool_calls = <<>>
    /\ args \in SearchCalls
    /\ returned = NoCall

SearchAndRerank ==
    /\ returned = NoCall
    /\ returned' = search_and_rerank(args)
    /\ UNCHANGED <<sessions, location_cache, minted, turn, cleared, written, query,
                   conversation_history, analysis, result, tool_calls, args>>

NextRag == SearchAndRerank

SpecRag == InitRag /\ [][NextRag]_vars

\* C13 (as claimed): a call with top_k = K and the default flags returns at
\* most K documents, for every K >= 0.
C13_AtMostTopK ==
    (returned # NoCall /\ args.top_k.given /\ args.use_mmr) =>
        Len(returned.docs) <= args.top_k.value

C15_RerankBounded ==
    (returned # NoCall /\ returned.status = "returned") =>
        LET docs == returned.reranked
        IN  /\ Len(docs) <= args.settings.RERANK_TOP_K
            /\ \/ /\ \A i \in 1..Len(docs) : docs[i].score >= SIMILARITY_THRESHOLD
                  /\ \A i \in 1..(Len(docs) - 1) : docs[i].score >= docs[i + 1].score
               \/ \A i \in 1..Len(docs) : docs[i].score = NoScore

-----------------------------------------------------------------------------
(* services/weather_service.py.  A temperature is a whole number of 0.1 C.   *)

\* _get_mock_weather: temp and description by the hour of the day.
mock_temp(hour) ==
    IF 6 <= hour /\ hour < 12 THEN 100 + (hour - 6) * 15
    ELSE IF 12 <= hour /\ hour < 18 THEN 190 + (hour - 12) * 5
    ELSE IF 18 <= hour /\ hour < 24 THEN 220 - (hour - 18) * 20
    ELSE 100 - hour * 5

\* 맑음 (아침) / 맑음 (낮) / 맑음 (저녁) / 맑음 (새벽)
mock_description(hour) ==
    IF 6 <= hour /\ hour < 12 THEN <<"k_malg", "k_eum", " ", "(", "k_a", "k_chim", ")">>
    ELSE IF 12 <= hour /\ hour < 18 THEN <<"k_malg", "k_eum", " ", "(", "k_nat", ")">>
    ELSE IF 18 <= hour /\ hour < 24 THEN <<"k_malg", "k_eum", " ", "(", "k_jeo", "k_nyeok", ")">>
    ELSE <<"k_malg", "k_eum", " ", "(", "k_sae", "k_byeok", ")">>

\* _get_mock_weather(location, error): error = "" stands for None and for the
\* empty str, both falsy: the result then has no "error" key.
get_mock_weather(location, error, hour) ==
    [raised |-> FALSE, location |-> location, status |-> "clear",
     description |-> mock_description(hour), temp |-> mock_temp(hour),
     humidity |-> 60, wind_speed |-> 15, rainfall |-> 0, source |-> "mock",
     error |-> IF error # "" THEN error ELSE NoError]

\* Lines 211-220: the status of a forecast line.
forecast_status(wf, pre_type, sky_code) ==
    IF Contains(<<"k_bi">>, wf) \/ pre_type = "WB06" THEN "rainy"
    ELSE IF Contains(<<"k_nun">>, wf) \/ pre_type = "WB07" THEN "snowy"
    ELSE IF Contains(<<"k_heu", "k_rim">>, wf) \/ sky_code = "4" THEN "cloudy"
    ELSE IF Contains(<<"k_gu", "k_reum">>, wf) \/ sky_code \in {"2", "3"} THEN "cloudy"
    ELSE "clear"

\* Lines 223-229: the temperature a forecast is given.
forecast_temp(hour) ==
    IF 6 <= hour /\ hour < 12 THEN 120
    ELSE IF 12 <= hour /\ hour < 18 THEN 180
    ELSE 100

\* _parse_kma_xml_response.  body.kind: "no_data" (no line but "#" lines),
\* "short" (fewer than 11 columns), "bad_number" (RN_ST is no integer) or
\* "forecast" with the columns WF, PRE, SKY and RN_ST.
parse_kma_xml_response(body, location, hour) ==
    CASE body.kind = "no_data" -> get_mock_weather(location, "<deiteo eopseum>", hour)
      [] body.kind = "short" -> get_mock_weather(location, "<eungdap hyeongsik oryu>", hour)
      [] body.kind = "bad_number" -> get_mock_weather(location, "<pasing oryu>", hour)
      [] OTHER ->
            [raised |-> FALSE, location |-> location,
             status |-> forecast_status(body.wf, body.pre, body.sky),
             description |-> body.wf, temp |-> forecast_temp(hour),
             humidity |-> 60, wind_speed |-> 15, rainfall |-> body.rain_prob,
             source |-> "kma_api_hub", error |-> NoError]

\* get_weather.  env.has_config: utils.config could be imported; env.api_key:
\* WEATHER_API_KEY is set; env.http: "timeout", "http_error", "exception" (any
\* other exception, its text env.message) or "ok" with the body env.body;
\* env.hour: the hour of datetime.now().
get_weather(location, env) ==
    IF ~env.has_config THEN get_mock_weather(location, "", env.hour)
    ELSE IF ~env.api_key THEN get_mock_weather(location, "", env.hour)
    ELSE CASE env.http = "timeout" ->
                  get_mock_weather(location, "<API taimaut>", env.hour)
           [] env.http = "http_error" ->
                  get_mock_weather(location, "<HTTP status>", env.hour)
           [] env.http = "exception" ->
                  get_mock_weather(location, env.message, env.hour)
           [] OTHER -> parse_kma_xml_response(env.body, location, env.hour)

-----------------------------------------------------------------------------
(* Direct calls of get_weather *)

\* 맑음, 비, 구름많음 with the codes of the line
Forecasts ==
    { [kind |-> "forecast", wf |-> <<"k_malg", "k_eum">>, pre |-> "WB00", sky |-> "1",
       rain_prob |-> 20],
      [kind |-> "forecast", wf |-> <<"k_bi">>, pre |-> "WB06", sky |-> "4", rain_prob |-> 80],
      [kind |-> "forecast", wf |-> <<"k_gu", "k_reum", "k_manh", "k_eum">>, pre |-> "WB00",
       sky |-> "3", rain_prob |-> 30] }

NoBody == [kind |-> "<none>", wf |-> <<>>, pre |-> "", sky |-> "", rain_prob |-> 0]

Bodies == Forecasts \cup {[NoBody EXCEPT !.kind = k] : k \in {"no_data", "short", "bad_number"}}

Hours == {3, 9, 15, 21}

WeatherEnvs ==
    {[has_config |-> c, api_key |-> k, http |-> "ok", message |-> "", body |-> b, hour |-> h] :
        c \in BOOLEAN, k \in BOOLEAN, b \in Bodies, h \in Hours}
    \cup
    {[has_config |-> TRUE, api_key |-> TRUE, http |-> x, message |-> "", body |-> NoBody,
      hour |-> h] : x \in {"timeout", "http_error"}, h \in Hours}
    \cup
    {[has_config |-> TRUE, api_key |-> TRUE, http |-> "exception", message |-> m,
      body |-> NoBody, hour |-> h] : m \in {"<connection refused>", ""}, h \in Hours}

InitWeather ==
    /\ IdleStore
    /\ query = <<>>
    /\ conversation_history = <<>>
    /\ analysis = NotAnalyzed
    /\ result = NoResult
    /\ tool_calls = <<>>
    /\ args \in {[op |-> "get_weather", location |-> l, env |-> e] :
                    l \in {Seoul, Seoul \o <<" ", "k_gang", "k_nam">>}, e \in WeatherEnvs}
    /\ returned = NoCall

GetWeather ==
    /\ returned = NoCall
    /\ returned' = get_weather(args.location, args.env)
    /\ UNCHANGED <<sessions, location_cache, minted, turn, cleared, written, query,
                   conversation_history, analysis, result, tool_calls, args>>

NextWeather == GetWeather

SpecWeather == InitWeather /\ [][NextWeather]_vars

\* C18 (as claimed): get_weather never raises, what it returns carries a
\* source, and a fallback reading (source mock) also carries an error reason.
C18_FallbackCarriesReason ==
    returned # NoCall =>
        /\ ~returned.raised
        /\ returned.source \in {"kma_api_hub", "mock"}
        /\ returned.source = "mock" => returned.error # NoError

-----------------------------------------------------------------------------
(* The response of chat_message for a result that carries map data *)

\* 지도 보여줘
MapQuery == <<"k_ji","k_do"," ","k_bo","k_yeo","k_jwo">>

\* The dict a call of get_map_markers returns, as the map_data of a result.
map_data_of(made) ==
    [kind |-> "dict", keys |-> {"center", "markers", "link"}, center |-> made.center,
     markers |-> made.markers]

\* {}
EmptyDict == [kind |-> "dict", keys |-> {}, center |-> [lat |-> 0, lng |-> 0],
              markers |-> <<>>]

\* The map data a result can hold: none, an empty dict, or what get_map_markers
\* made of a marker list (its fallback, without markers, included).
ResultMapData ==
    {NoMapData, EmptyDict}
        \cup {map_data_of(get_map_markers(j)) :
                 j \in {x \in MarkersJson : get_map_markers(x).status = "returned"}}

\* 지도를 준비했어요
MapAnswer == <<"<jidoreul junbihaesseoyo>">>

GivenResults == [answer : {MapAnswer}, map_data : ResultMapData]

GivenEnv == {[binding |-> "given", fault |-> "none", result |-> r] : r \in GivenResults}

\* POST /chat/message, the first of a conversation, answered from a result
\* that was given.
RespondToResult ==
    /\ turn.op = "<none>"
    /\ \E id \in RequestIds, q \in ChatQueries \cup {MapQuery}, env \in GivenEnv :
          \E request \in {[message |-> q, conversation_id |-> id]} :
          \E c \in {chat_message(request, sessions, location_cache, minted, env)} :
              /\ sessions' = c.sessions
              /\ location_cache' = c.location_cache
              /\ minted' = c.minted
              /\ turn' = [op |-> "chat_message", request |-> request,
                          response |-> c.response, conversation_id |-> c.conversation_id,
                          failed |-> c.failed, saved |-> c.saved, history |-> c.loaded,
                          analysis |-> c.analysis, calls |-> c.calls,
                          after_clear |-> FALSE, cleared_location |-> None,
                          minted_before |-> minted, map_data |-> c.map_data]
    /\ UNCHANGED <<cleared, written, query, conversation_history, analysis, result, tool_calls, args, returned>>

\* POST /chat/message with 지도 보여줘, the first of a conversation, answered by
\* either definition of run_agent.
MapRequest ==
    /\ turn.op = "<none>"
    /\ \E id \in RequestIds, env \in ChatEnv :
          \E request \in {[message |-> MapQuery, conversation_id |-> id]} :
          \E c \in {chat_message(request, sessions, location_cache, minted, env)} :
              /\ sessions' = c.sessions
              /\ location_cache' = c.location_cache
              /\ minted' = c.minted
              /\ turn' = [op |-> "map_request", request |-> request,
                          response |-> c.response, conversation_id |-> c.conversation_id,
                          failed |-> c.failed, saved |-> c.saved, history |-> c.loaded,
                          analysis |-> c.analysis, calls |-> c.calls,
                          after_clear |-> FALSE, cleared_location |-> None,
                          minted_before |-> minted, map_data |-> c.map_data]
    /\ UNCHANGED <<cleared, written, query, conversation_history, analysis, result, tool_calls, args, returned>>

NextResponse == RespondToResult \/ MapRequest

SpecResponse == Init /\ [][NextResponse]_vars

\* C11: the response of a chat_message call that raised nothing has type map
\* exactly when the result holds map data with at least one marker, and then
\* its data are the center and the markers of the result; every other
\* response has type text and no data, and so has every response to
\* 지도 보여줘 in a conversation without stored turns, which either definition of
\* run_agent answers with a result without map data.
C11_MapTypeIffMarkers ==
    /\ turn.op \in {"chat_message", "map_request"} =>
          /\ turn.response.type = "map" <=>
                 (turn.failed = "none" /\ has_markers(turn.map_data))
          /\ turn.response.type = "map" =>
                 /\ turn.response.data.center = turn.map_data.center
                 /\ turn.response.data.markers = turn.map_data.markers
                 /\ Len(turn.response.data.markers) >= 1
          /\ turn.response.type # "map" =>
                 /\ turn.response.type = "text"
                 /\ turn.response.data = NoMapData
    /\ turn.op = "map_request" =>
          /\ turn.history = <<>>
          /\ turn.map_data = NoMapData
          /\ turn.response.type = "text"
          /\ turn.response.data = NoMapData

\* A map response for 지도 보여줘 whose result held two markers.
C11_WitnessMapResponse ==
    /\ turn.op = "chat_message"
    /\ turn.request.message = MapQuery
    /\ turn.response.type = "map"
    /\ Len(turn.response.data.markers) = 2
    /\ turn.response.data.markers = turn.map_data.markers

-----------------------------------------------------------------------------
(* cleanup_old_sessions on a store filled by direct calls *)

MaxCeiling == 2

CleanupIds == {"c1", "c2", "c3"}

\* Python's list[:-m]: for m > 0 all but the last m elements, and for m = 0
\* the slice [:0], which is empty.
AllButLast(list, m) ==
    IF m = 0 THEN <<>>
    ELSE IF Len(list) > m THEN SubSeq(list, 1, Len(list) - m)
    ELSE <<>>

\* Line 116: list(_sessions.keys())[:-max_sessions], as the entries of the keys.
sessions_to_delete(S, max_sessions) == AllButLast(S, max_sessions)

\* Lines 117-118: clear_history for each of the ids, in order.
RECURSIVE clear_each(_, _, _)
clear_each(S, C, doomed) ==
    IF doomed = <<>> THEN [sessions |-> S, location_cache |-> C]
    ELSE LET c == clear_history(S, C, Head(doomed).id)
         IN  clear_each(c.sessions, c.location_cache, Tail(doomed))

\* cleanup_old_sessions(max_sessions)
cleanup_old_sessions(S, C, max_sessions) ==
    IF Len(S) > max_sessions
    THEN clear_each(S, C, sessions_to_delete(S, max_sessions))
    ELSE [sessions |-> S, location_cache |-> C]

\* save_history(id, [user entry, ai entry]) for a stored or a new id
CleanupSaveHistory ==
    /\ \E id \in CleanupIds :
          /\ sessions' = save_history(sessions, id,
                             get_history(sessions, id) \o
                                 <<UserMessage(<<"k_nol","k_i","k_teo">>)>>)
          /\ Len(get_history(sessions, id)) < MaxHistLen
          /\ args' = [op |-> "save_history", conversation_id |-> id]
    /\ UNCHANGED <<location_cache, minted, turn, cleared, written,
                   query, conversation_history, analysis, result, tool_calls, returned>>

\* save_cached_location(id, "서울")
CleanupSaveCachedLocation ==
    /\ \E id \in CleanupIds :
          /\ location_cache' = save_cached_location(location_cache, id, Seoul)
          /\ args' = [op |-> "save_cached_location", conversation_id |-> id]
    /\ UNCHANGED <<sessions, minted, turn, cleared, written,
                   query, conversation_history, analysis, result, tool_calls, returned>>

\* cleanup_old_sessions(max_sessions); args keeps the store the call found.
CleanupOldSessions ==
    /\ \E max_sessions \in 0..MaxCeiling :
          \E c \in {cleanup_old_sessions(sessions, location_cache, max_sessions)} :
          /\ sessions' = c.sessions
          /\ location_cache' = c.location_cache
          /\ args' = [op |-> "cleanup_old_sessions", max_sessions |-> max_sessions,
                      sessions |-> sessions, location_cache |-> location_cache]
    /\ UNCHANGED <<minted, turn, cleared, written,
                   query, conversation_history, analysis, result, tool_calls, returned>>

NextCleanup == CleanupSaveHistory \/ CleanupSaveCachedLocation \/ CleanupOldSessions

SpecCleanup == InitStore /\ [][NextCleanup]_vars

\* The last n entries of a dict.
LastEntries(d, n) ==
    IF n >= Len(d) THEN d ELSE SubSeq(d, Len(d) - n + 1, Len(d))

\* C21 (as claimed): after cleanup_old_sessions(max) at most max sessions are
\* stored, for every max >= 0; the sessions kept are the most recently created
\* ones, unchanged; and no removed session keeps a cached location.
C21_CleanupKeepsNewest ==
    args.op = "cleanup_old_sessions" =>
        /\ get_session_count(sessions) <= args.max_sessions
        /\ sessions = LastEntries(args.sessions, args.max_sessions)
        /\ \A id \in Keys(args.sessions) \ Keys(sessions) :
               get_cached_location(location_cache, id) = None

-----------------------------------------------------------------------------
(* A conversation of three-step run_agent calls, each given the history the *)
(* call before it returned (test_agent_history.py:19, 26)                    *)

MaxConversation == 7

\* 놀이터 찾아줘 / 강남 놀이터 찾아줘 / 부산 놀이터 찾아줘
ConversationQueries == {
    <<"k_nol","k_i","k_teo"," ","k_chaj","k_a","k_jwo">>,
    <<"k_gang","k_nam"," ","k_nol","k_i","k_teo"," ","k_chaj","k_a","k_jwo">>,
    <<"k_bu","k_san"," ","k_nol","k_i","k_teo"," ","k_chaj","k_a","k_jwo">> }

\* Both tools answer and the answer comes from the template.
ConversationEnv ==
    [weather |-> "clear", found |-> [raises |-> FALSE, docs |-> <<Doc1>>], llm |-> "mock"]

\* The history the next call is given: what the last call returned.
history_so_far == IF result.status = "returned" THEN result.conversation_history ELSE <<>>

\* run_agent(q, "test-123", history of the call before)
ConversationTurn ==
    /\ Len(history_so_far) < 2 * MaxConversation
    /\ \E q \in ConversationQueries :
          \E r \in {run_agent_3step(q, history_so_far, ConversationEnv)} :
          /\ query' = q
          /\ conversation_history' = history_so_far
          /\ result' = r.out
          /\ tool_calls' = r.calls
          /\ analysis' = r.analysis
    /\ UNCHANGED <<sessions, location_cache, minted, turn, cleared, written, args, returned>>

NextConversation == ConversationTurn

SpecConversation == InitAgent /\ [][NextConversation]_vars

\* The user-role entries among the last HistoryWindow entries of history whose
\* content holds a location.
LocatedUserEntries(history) ==
    {i \in LastIndices(history, HistoryWindow) :
        history[i].role = "user" /\ Truthy(extract_location(history[i].content))}

\* The location of the most recent of these entries, None without one.
MostRecentLocation(history) ==
    IF LocatedUserEntries(history) = {} THEN None
    ELSE extract_location(
             history[CHOOSE i \in LocatedUserEntries(history) :
                        \A k \in LocatedUserEntries(history) : k <= i].content)

\* C22: in every turn of a conversation that is not classified emotion, a
\* location in the query is the resolved location; without one the resolved
\* location is that of the most recent user-role entry, among the last 10
\* history entries, that holds a location; entries of other roles and entries
\* before the last 10 contribute nothing, and the turn is need_location
\* exactly when neither the query nor these entries hold a location.
C22_LocationResolution ==
    (analysis # NotAnalyzed /\ analysis.type # "emotion") =>
        /\ Truthy(extract_location(query)) =>
               analysis.location = extract_location(query)
        /\ ~Truthy(extract_location(query)) =>
               analysis.location = MostRecentLocation(conversation_history)
        /\ analysis.type = "need_location" <=>
               (/\ ~Truthy(extract_location(query))
                /\ MostRecentLocation(conversation_history) = None)
        /\ analysis.type = "ready" <=> Truthy(analysis.location)

\* A conversation that was ready is back at need_location: the only user entry
\* with a location lies before the last 10 entries, and the ai entries of the
\* window hold place names.
C22_WitnessBackToNeedLocation ==
    /\ analysis # NotAnalyzed
    /\ analysis.type = "need_location"
    /\ Len(conversation_history) > HistoryWindow
    /\ \E i \in 1..(Len(conversation_history) - HistoryWindow) :
          /\ conversation_history[i].role = "user"
          /\ Truthy(extract_location(conversation_history[i].content))
    /\ \E i \in LastIndices(conversation_history, HistoryWindow) :
          /\ conversation_history[i].role = "ai"
          /\ Truthy(extract_location(conversation_history[i].content))

-----------------------------------------------------------------------------
(* Direct calls of RAGService._dedupe *)

MaxDedupeDocs == 3

\* Documents as _format_results builds them: two texts, the facility name
\* under "facility_name", under "Name", under both, or under neither.
DedupeDocs ==
    [content : {"<text-1>", "<text-2>"},
     metadata : [facility_name : {"", "A", "B"}, Name : {"", "A"}],
     score : {NoScore}]

DedupeLists == UNION {[1..n -> DedupeDocs] : n \in 0..MaxDedupeDocs}

InitDedupe ==
    /\ IdleStore
    /\ query = <<>>
    /\ conversation_history = <<>>
    /\ analysis = NotAnalyzed
    /\ result = NoResult
    /\ tool_calls = <<>>
    /\ args \in {[op |-> "_dedupe", docs |-> l] : l \in DedupeLists}
    /\ returned = NoCall

\* unique = self._dedupe(docs), and self._dedupe(unique)
Dedupe ==
    /\ returned = NoCall
    /\ \E unique \in {dedupe(args.docs)} :
          returned' = [op |-> "_dedupe", unique |-> unique, again |-> dedupe(unique)]
    /\ UNCHANGED <<sessions, location_cache, minted, turn, cleared, written, query,
                   conversation_history, analysis, result, tool_calls, args>>

NextDedupe == Dedupe

SpecDedupe == InitDedupe /\ [][NextDedupe]_vars

\* The positions of docs that hold the first occurrence of a facility name.
FirstOccurrences(docs) ==
    {i \in 1..Len(docs) :
        /\ facility_name(docs[i]) # ""
        /\ \A k \in 1..(i - 1) : facility_name(docs[k]) # facility_name(docs[i])}

\* The documents of docs at the positions in at, in the order of docs.
Subsequence(docs, at) ==
    [j \in 1..Cardinality(at) |->
        docs[CHOOSE i \in at : Cardinality({k \in at : k <= i}) = j]]

\* C23: _dedupe returns the documents that are the first occurrence of their
\* facility name, in the order of its input: no two of them share a name and
\* none is without a name.
C23_DedupeFirstOccurrences ==
    returned # NoCall =>
        /\ returned.unique = Subsequence(args.docs, FirstOccurrences(args.docs))
        /\ \A i, j \in 1..Len(returned.unique) :
               i # j => facility_name(returned.unique[i]) # facility_name(returned.unique[j])
        /\ \A i \in 1..Len(returned.unique) : facility_name(returned.unique[i]) # ""

\* Names A, B, A with a nameless document: the first A and the B are returned,
\* in that order, the second A (another text) is not.
C23_WitnessRepeatedName ==
    /\ returned # NoCall
    /\ Len(args.docs) = 3
    /\ facility_name(args.docs[1]) = "A"
    /\ facility_name(args.docs[2]) = "B"
    /\ facility_name(args.docs[3]) = "A"
    /\ args.docs[1].content # args.docs[3].content
    /\ returned.unique = <<args.docs[1], args.docs[2]>>

\* C24: _dedupe applied to its own output returns that output.
C24_DedupeIdempotent ==
    returned # NoCall => returned.again = returned.unique

\* A list that _dedupe shortened, and whose output a second call left alone.
C24_WitnessShortened ==
    /\ returned # NoCall
    /\ Len(returned.unique) >= 1
    /\ Len(returned.unique) < Len(args.docs)
    /\ returned.again = returned.unique

-----------------------------------------------------------------------------
(* Direct calls of extract_location *)

MaxTextParts == 4

\* 강, 남, a space, 부산, 서울, 서초, 강남
TextParts == {
    <<"k_gang">>, <<"k_nam">>, <<" ">>, <<"k_bu","k_san">>, <<"k_seo","k_ul">>,
    <<"k_seo","k_cho">>, <<"k_gang","k_nam">> }

RECURSIVE Texts(_)
Texts(n) ==
    IF n = 0 THEN {<<>>}
    ELSE LET shorter == Texts(n - 1)
         IN  shorter \cup {s \o f : s \in shorter, f \in TextParts}

\* The text without its spaces.
Unspaced(text) == SelectSeq(text, LAMBDA c : c # " ")

InitExtract ==
    /\ IdleStore
    /\ query = <<>>
    /\ conversation_history = <<>>
    /\ analysis = NotAnalyzed
    /\ result = NoResult
    /\ tool_calls = <<>>
    /\ args \in {[op |-> "extract_location", text |-> t] : t \in Texts(MaxTextParts)}
    /\ returned = NoCall

\* extract_location(text), called twice, and extract_location of the same
\* text written without spaces.
ExtractLocation ==
    /\ returned = NoCall
    /\ returned' = [op |-> "extract_location",
                    location |-> extract_location(args.text),
                    again |-> extract_location(args.text),
                    unspaced |-> extract_location(Unspaced(args.text))]
    /\ UNCHANGED <<sessions, location_cache, minted, turn, cleared, written, query,
                   conversation_history, analysis, result, tool_calls, args>>

NextExtract == ExtractLocation

SpecExtract == InitExtract /\ [][NextExtract]_vars

\* C25 (as claimed): a text resolves to the location that the same text
\* written without spaces resolves to, whenever that text holds a place name.
C25_WhitespaceInsensitive ==
    (returned # NoCall /\ Truthy(returned.unspaced)) =>
        returned.location = returned.unspaced

\* The positions of the names of a list that occur in the text.
Occurring(names, text) == {i \in 1..Len(names) : Contains(names[i], text)}

Least(indices) == CHOOSE i \in indices : \A k \in indices : i <= k

\* C26: extract_location gives the same value on every call; with a city name
\* in the text it gives the first city of the list that occurs, followed by the
\* first district of the list that occurs if one does; with district names
\* only, 서울 and the first such district; and None with neither.
C26_FirstMatchByListOrder ==
    returned # NoCall =>
        LET c == Occurring(cities, args.text)
            d == Occurring(districts, args.text)
        IN  /\ returned.again = returned.location
            /\ (c # {} /\ d # {}) =>
                   returned.location =
                       cities[Least(c)] \o <<" ">> \o districts[Least(d)]
            /\ (c # {} /\ d = {}) => returned.location = cities[Least(c)]
            /\ (c = {} /\ d # {}) =>
                   returned.location = Seoul \o <<" ">> \o districts[Least(d)]
            /\ (c = {} /\ d = {}) => returned.location = None

\* 부산 written before 서울, with 서초 before 강남: the result is 서울 강남.
C26_WitnessListOrderNotTextOrder ==
    /\ returned # NoCall
    /\ Contains(<<"k_bu","k_san","k_seo","k_ul">>, args.text)
    /\ Contains(<<"k_seo","k_cho","k_gang","k_nam">>, args.text)
    /\ returned.location = <<"k_seo","k_ul"," ","k_gang","k_nam">>

-----------------------------------------------------------------------------
(* Turns of one conversation id, one after the other.  chat_message is an    *)
(* async def without an await (chat.py:37-112): once started it runs to its  *)
(* return, so the turns that reach the store are serialized.                 *)

\* C27 (as claimed): a chat_message call that did not fail leaves, under its
\* conversation id, the history stored before it followed by the turn's user
\* entry and ai entry, so that n serialized turns store n pairs in turn order.
C27_SerializedTurnsAccumulate ==
    [][(turn'.op = "chat_message" /\ turn'.failed = "none") =>
          get_history(sessions', turn'.conversation_id) =
              get_history(sessions, turn'.conversation_id) \o
                  <<UserMessage(turn'.request.message),
                    AiMessage(turn'.response.content)>>]_vars

-----------------------------------------------------------------------------
(* Operations on two conversation ids, in any order.  Every list the         *)
(* operations store is built for one id (history + [...], or the list that   *)
(* id already had), so no list is shared between ids.                        *)

IsolationIds == {"c1", "c2"}

\* No step of the handler raises: the three-step definition with both tools
\* answering, and the LangGraph definition without an agent.
IsolationEnv ==
    {e \in ChatEnv :
        /\ e.fault = "none"
        /\ e.binding = "3step" => (e.weather = "clear" /\ e.llm = "mock")
        /\ e.binding = "langgraph" => e.agent = "none"}

\* 강남 놀이터 찾아줘
IsolationQueries ==
    {<<"k_gang","k_nam"," ","k_nol","k_i","k_teo"," ","k_chaj","k_a","k_jwo">>}

\* 부산
Busan == <<"k_bu","k_san">>

\* POST /chat/message with a client's id
IsolatedChatMessage ==
    /\ StoredMessages(sessions) + 2 <= MaxMessages
    /\ \E id \in IsolationIds, q \in IsolationQueries, env \in IsolationEnv :
          \E request \in {[message |-> q, conversation_id |-> id]} :
          \E c \in {chat_message(request, sessions, location_cache, minted, env)} :
              /\ sessions' = c.sessions
              /\ location_cache' = c.location_cache
              /\ minted' = c.minted
              /\ turn' = [op |-> "chat_message", request |-> request,
                          response |-> c.response, conversation_id |-> c.conversation_id,
                          failed |-> c.failed, saved |-> c.saved, history |-> c.loaded,
                          analysis |-> c.analysis, calls |-> c.calls,
                          after_clear |-> FALSE, cleared_location |-> None,
                          minted_before |-> minted, map_data |-> c.map_data]
    /\ UNCHANGED <<cleared, written, query, conversation_history, analysis, result, tool_calls, args, returned>>

\* add_message(id, "user", "놀이터")
IsolatedAddMessage ==
    /\ StoredMessages(sessions) + 1 <= MaxMessages
    /\ \E id \in IsolationIds :
          /\ sessions' = add_message(sessions, id, "user", <<"k_nol","k_i","k_teo">>)
          /\ turn' = [NoTurn EXCEPT !.op = "add_message", !.conversation_id = id]
    /\ UNCHANGED <<location_cache, minted, cleared, written, query, conversation_history,
                   analysis, result, tool_calls, args, returned>>

\* clear_history(id)
IsolatedClearHistory ==
    /\ \E id \in IsolationIds :
          \E c \in {clear_history(sessions, location_cache, id)} :
          /\ sessions' = c.sessions
          /\ location_cache' = c.location_cache
          /\ turn' = [NoTurn EXCEPT !.op = "clear_history", !.conversation_id = id]
    /\ UNCHANGED <<minted, cleared, written, query, conversation_history,
                   analysis, result, tool_calls, args, returned>>

\* save_cached_location(id, location)
IsolatedSaveCachedLocation ==
    /\ \E id \in IsolationIds, location \in {Seoul, Busan} :
          /\ location_cache' = save_cached_location(location_cache, id, location)
          /\ turn' = [NoTurn EXCEPT !.op = "save_cached_location", !.conversation_id = id]
    /\ UNCHANGED <<sessions, minted, cleared, written, query, conversation_history,
                   analysis, result, tool_calls, args, returned>>

NextIsolation ==
    \/ IsolatedChatMessage
    \/ IsolatedAddMessage
    \/ IsolatedClearHistory
    \/ IsolatedSaveCachedLocation

SpecIsolation == Init /\ [][NextIsolation]_vars

\* C28: an operation on one conversation id leaves the stored history and the
\* cached location of every other id as they were.
C28_SessionIsolation ==
    [][\A other \in IsolationIds :
          other # turn'.conversation_id =>
              /\ get_history(sessions', other) = get_history(sessions, other)
              /\ get_cached_location(location_cache', other) =
                     get_cached_location(location_cache, other)]_vars

\* A stored chat turn on c1 while c2 holds a history and a cached location of
\* its own, different from c1's.
C28_WitnessOtherIdIntact ==
    /\ turn.op = "chat_message"
    /\ turn.conversation_id = "c1"
    /\ turn.saved
    /\ get_history(sessions, "c2") # <<>>
    /\ get_cached_location(location_cache, "c2") = Busan
    /\ get_cached_location(location_cache, "c1") = Seoul

-----------------------------------------------------------------------------
(* The id of the response and the id of the stored turn *)

\* C29 (as claimed): when a chat_message call stored its turn's history, the
\* conversation id of its response is the id the history was stored under.
C29_ReturnedIdIsStoredId ==
    (turn.op = "chat_message" /\ turn.saved /\ turn.response # Unhandled) =>
        turn.response.conversation_id = turn.conversation_id

-----------------------------------------------------------------------------
(* A turn that fails before its history is saved *)

\* C30: a chat_message call that failed without having saved its history
\* leaves _sessions and _location_cache as they were: same ids in the same
\* order, same lists, same locations; no session exists for an id that was
\* not stored before, and the session count is the same.
C30_FailedTurnLeavesStore ==
    [][(turn'.op = "chat_message" /\ turn'.failed # "none" /\ ~turn'.saved) =>
          /\ sessions' = sessions
          /\ location_cache' = location_cache
          /\ get_session_count(sessions') = get_session_count(sessions)
          /\ Keys(sessions') = Keys(sessions)
          /\ turn'.failed # "get_history" =>
                 turn'.history = get_history(sessions', turn'.conversation_id)]_vars

\* run_agent raised in a call without request id, while another conversation
\* is stored: nothing is stored under the id minted for the call.
C30_WitnessFailedUnseenId ==
    /\ turn.op = "chat_message"
    /\ turn.failed = "run_agent"
    /\ ~IdGiven(turn.request.conversation_id)
    /\ turn.conversation_id \notin Keys(sessions)
    /\ get_session_count(sessions) >= 1

====
